---- MODULE Spec2Model ----
(***************************************************************************)
(* Model of the capi2argo-cluster-operator reconciliation engine:          *)
(* Capi2Argo.Reconcile and the helpers it calls, run against a Kubernetes  *)
(* object store holding Secrets and CAPI Clusters.                         *)
(*                                                                         *)
(* Strings are sequences of symbols (a symbol stands for a run of bytes),  *)
(* so that prefix, suffix, trim, split and concatenation are computed the  *)
(* way the Go strings package computes them.                               *)
(***************************************************************************)
EXTENDS Integers, Sequences, FiniteSets, TLC

VARIABLES
    cfg,        \* Capi2Argo.Config, fixed at start-up
    secrets,    \* the Secret objects of the store: NamespacedName -> Secret
    clusters,   \* the CAPI Cluster objects of the store: NamespacedName -> Cluster
    created,    \* counter secretsCreatedTotal
    updated,    \* counter secretsUpdatedTotal
    deleted,    \* counter secretsDeletedTotal
    queue,      \* source identities with a pass pending in the work queue
    inflight,   \* invocations past their reads, before their write: identity -> plan
    last        \* observation of the latest Reconcile invocation

vars == <<cfg, secrets, clusters, created, updated, deleted, queue, inflight, last>>

----------------------------------------------------------------------------
(* Go strings package, on sequences of symbols *)

HasPrefix(s, p) == Len(s) >= Len(p) /\ SubSeq(s, 1, Len(p)) = p

HasSuffix(s, p) == Len(s) >= Len(p) /\ SubSeq(s, Len(s) - Len(p) + 1, Len(s)) = p

TrimSuffix(s, p) == IF HasSuffix(s, p) THEN SubSeq(s, 1, Len(s) - Len(p)) ELSE s

\* index of the first occurrence of the one-symbol separator sep in s at or
\* after position i, or Len(s)+1 when there is none
RECURSIVE IndexFrom(_, _, _)
IndexFrom(s, sep, i) ==
    IF i > Len(s) THEN Len(s) + 1
    ELSE IF s[i] = sep[1] THEN i
    ELSE IndexFrom(s, sep, i + 1)

\* strings.Split(s, sep)[1] for an s that starts with the one-symbol sep:
\* what lies between the first and the second occurrence of sep
SplitSecond(s, sep) == SubSeq(s, 2, IndexFrom(s, sep, 2) - 1)

\* a Go map as a function; m[k] with the zero value for a missing key
Lookup(m, k) == IF k \in DOMAIN m THEN m[k] ELSE <<>>

\* delete(m, k)
MapDelete(m, ks) == [k \in DOMAIN m \ ks |-> m[k]]

\* for k, v := range src { dst[k] = v }
MapMerge(dst, src) ==
    [k \in DOMAIN dst \cup DOMAIN src |-> IF k \in DOMAIN src THEN src[k] ELSE dst[k]]

EmptyMap == [k \in {} |-> <<>>]

Range(seq) == {seq[i] : i \in 1..Len(seq)}

----------------------------------------------------------------------------
(* constants of the code *)

KubeconfigSuffix == <<"-", "kubeconfig">>
UserKubeconfigSuffix == <<"-", "user", "-", "kubeconfig">>
ClusterPrefix == <<"cluster", "-">>

CapiClusterSecretType == <<"cluster.x-k8s.io/secret">>
SecretTypeOpaque == <<"Opaque">>

clusterTakeAlongKey == <<"take-along-label.capi-to-argocd.">>
clusterTakenFromClusterKey == <<"taken-from-cluster-label.capi-to-argocd.">>
clusterIgnoreKey == <<"ignore-cluster.capi-to-argocd">>

ClusterNameLabel == <<"cluster.x-k8s.io/", "cluster-name">>
OwnedLabel == <<"capi-to-argocd/", "owned">>
SecretTypeLabel == <<"argocd.argoproj.io/", "secret-type">>
SecretNameLabel == <<"capi-to-argocd/", "cluster-secret-name">>
SecretNamespaceLabel == <<"capi-to-argocd/", "cluster-namespace">>

GetArgoCommonLabels ==
    (OwnedLabel :> <<"true">>) @@ (SecretTypeLabel :> <<"cluster">>)

ErrNone == "none"
ErrWrongType == "wrong secret type"
ErrWrongKey == "wrong secret key"
ErrInvalidKubeConfig == "invalid KubeConfig"
ErrIO == "io error"
ErrPanic == "panic: assignment to entry in nil map"

NN(ns, name) == [namespace |-> ns, name |-> name]

----------------------------------------------------------------------------
(* capi cluster: validation and decoding of the credential record *)

\* ValidateCapiNaming without the test for -user-kubeconfig
ValidateCapiNamingSuffixOnly(n) == HasSuffix(n.name, KubeconfigSuffix)

ValidateCapiNaming(n) ==
    HasSuffix(n.name, KubeconfigSuffix) /\ ~HasSuffix(n.name, UserKubeconfigSuffix)

\* ValidateCapiSecret without the switch on s.Type
ValidateCapiSecretAnyType(s) ==
    IF "value" \in DOMAIN s.data THEN ErrNone ELSE ErrWrongKey

\* ValidateCapiSecret without the label test of the Opaque case
ValidateCapiSecretAnyOpaque(s) ==
    IF s.type \in {CapiClusterSecretType, SecretTypeOpaque} THEN
        IF "value" \in DOMAIN s.data THEN ErrNone ELSE ErrWrongKey
    ELSE ErrWrongType

ValidateCapiSecret(s) ==
    IF s.type = CapiClusterSecretType THEN
        IF "value" \in DOMAIN s.data THEN ErrNone ELSE ErrWrongKey
    ELSE IF s.type = SecretTypeOpaque THEN
        IF ClusterNameLabel \notin DOMAIN s.labels THEN ErrWrongType
        ELSE IF "value" \in DOMAIN s.data THEN ErrNone ELSE ErrWrongKey
    ELSE ErrWrongType

\* yaml.Unmarshal into KubeConfig: a payload is a document that either fails
\* to decode or yields the four fields, a missing field being its zero value
YamlUnmarshal(doc) ==
    IF ~doc.decodes THEN [err |-> TRUE, apiVersion |-> <<>>, kind |-> <<>>,
                          clusters |-> <<>>, users |-> <<>>]
    ELSE [err |-> FALSE,
          apiVersion |-> IF "apiVersion" \in DOMAIN doc.fields THEN doc.fields["apiVersion"] ELSE <<>>,
          kind |-> IF "kind" \in DOMAIN doc.fields THEN doc.fields["kind"] ELSE <<>>,
          clusters |-> IF "clusters" \in DOMAIN doc.fields THEN doc.fields["clusters"] ELSE <<>>,
          users |-> IF "users" \in DOMAIN doc.fields THEN doc.fields["users"] ELSE <<>>]

\* Unmarshal without the test of KubeConfig.Kind
UnmarshalAnyKind(s) ==
    LET v == ValidateCapiSecret(s) IN
    IF v # ErrNone THEN [err |-> v, kubeConfig |-> YamlUnmarshal([decodes |-> FALSE])]
    ELSE LET kc == YamlUnmarshal(s.data["value"]) IN
         IF kc.err \/ Len(kc.clusters) = 0 \/ Len(kc.users) = 0 \/ kc.apiVersion # <<"v1">>
         THEN [err |-> ErrInvalidKubeConfig, kubeConfig |-> kc]
         ELSE [err |-> ErrNone, kubeConfig |-> kc]

\* CapiCluster.Unmarshal: the error and the decoded KubeConfig
Unmarshal(s) ==
    LET v == ValidateCapiSecret(s) IN
    IF v # ErrNone THEN [err |-> v, kubeConfig |-> YamlUnmarshal([decodes |-> FALSE])]
    ELSE LET kc == YamlUnmarshal(s.data["value"]) IN
         IF kc.err \/ Len(kc.clusters) = 0 \/ Len(kc.users) = 0
               \/ kc.apiVersion # <<"v1">> \/ kc.kind # <<"Config">>
         THEN [err |-> ErrInvalidKubeConfig, kubeConfig |-> kc]
         ELSE [err |-> ErrNone, kubeConfig |-> kc]

----------------------------------------------------------------------------
(* Config *)

\* unicode.IsSpace on the characters used
Whitespace == {" ", "\t"}

\* strings.Split(s, sep) for a separator of one character
RECURSIVE Split(_, _)
Split(s, sep) ==
    LET hits == {i \in 1..Len(s) : s[i] = sep}
    IN IF hits = {} THEN <<s>>
       ELSE LET i == CHOOSE h \in hits : \A g \in hits : h <= g
            IN <<SubSeq(s, 1, i - 1)>> \o Split(SubSeq(s, i + 1, Len(s)), sep)

\* strings.TrimSpace
TrimSpace(s) ==
    LET solid == {i \in 1..Len(s) : s[i] \notin Whitespace}
    IN IF solid = {} THEN <<>>
       ELSE SubSeq(s, CHOOSE i \in solid : \A j \in solid : i <= j,
                      CHOOSE i \in solid : \A j \in solid : i >= j)

NotEmpty(s) == s # <<>>

\* parseNamespaceList without strings.TrimSpace
parseNamespaceListUntrimmed(raw) ==
    IF raw = <<>> THEN <<>> ELSE SelectSeq(Split(raw, ","), NotEmpty)

\* parseNamespaceList(raw): nil is the empty sequence
parseNamespaceList(raw) ==
    IF raw = <<>> THEN <<>>
    ELSE LET parts == Split(raw, ",")
         IN SelectSeq([i \in 1..Len(parts) |-> TrimSpace(parts[i])], NotEmpty)

\* slices.Contains
Contains(list, x) == \E i \in 1..Len(list) : list[i] = x

\* IsNamespaceAllowed without the test for an empty list
IsNamespaceAllowedListed(c, namespace) == Contains(c.AllowedNamespaces, namespace)

IsNamespaceAllowed(c, namespace) ==
    IF Len(c.AllowedNamespaces) = 0 THEN TRUE ELSE Contains(c.AllowedNamespaces, namespace)

\* EventFilter without the test of the namespace
EventFilterNameOnly(c, nn) == ValidateCapiNaming(nn)

\* the predicate SetupWithManager installs on Secret events
EventFilter(c, nn) == ValidateCapiNaming(nn) /\ IsNamespaceAllowed(c, nn.namespace)

----------------------------------------------------------------------------
(* argo cluster: label policy, naming, target builder *)

\* the label a take-along key asks for, and whether the key is malformed
extractTakeAlongLabel(key) ==
    IF HasPrefix(key, clusterTakeAlongKey) THEN
        IF SplitSecond(key, clusterTakeAlongKey) # <<>>
        THEN [label |-> SplitSecond(key, clusterTakeAlongKey), err |-> FALSE]
        ELSE [label |-> <<>>, err |-> TRUE]
    ELSE [label |-> <<>>, err |-> FALSE]

\* a nil *clusterv1.Cluster
NilCluster == [nil |-> TRUE]

\* validateClusterIgnoreLabel without the lookup: the label must be "true"
validateClusterIgnoreLabelTrueOnly(cluster) ==
    IF "nil" \in DOMAIN cluster THEN FALSE
    ELSE Lookup(cluster.labels, clusterIgnoreKey) = <<"true">>

validateClusterIgnoreLabel(cluster) ==
    IF "nil" \in DOMAIN cluster THEN FALSE
    ELSE clusterIgnoreKey \in DOMAIN cluster.labels

ReservedPrefixes ==
    { <<"kubernetes.io/">>, <<"cluster.x-k8s.io/">>, <<"capi-to-argocd/">>, clusterTakeAlongKey }

\* buildAutoLabelCopy without the test for clusterIgnoreKey
buildAutoLabelCopyPrefixesOnly(clusterLabels) ==
    LET skipped(key) == \E p \in ReservedPrefixes : HasPrefix(key, p)
    IN [key \in {k \in DOMAIN clusterLabels : ~skipped(k)} |-> clusterLabels[key]]

buildAutoLabelCopy(clusterLabels) ==
    LET skipped(key) == (\E p \in ReservedPrefixes : HasPrefix(key, p)) \/ key = clusterIgnoreKey
    IN [key \in {k \in DOMAIN clusterLabels : ~skipped(k)} |-> clusterLabels[key]]

\* the labels to propagate and the warnings (one per message)
buildTakeAlongLabels(cluster, c) ==
    LET clusterLabels == cluster.labels
        malformed == {k \in DOMAIN clusterLabels : extractTakeAlongLabel(k).err}
        takeAlongLabels == {extractTakeAlongLabel(k).label : k \in DOMAIN clusterLabels} \ {<<>>}
        present == {l \in takeAlongLabels : l \in DOMAIN clusterLabels}
        missing == takeAlongLabels \ present
    IN IF c.EnableAutoLabelCopy THEN
           [labels |-> buildAutoLabelCopy(clusterLabels), warnings |-> {}]
       ELSE IF malformed # {} THEN
           [labels |-> EmptyMap,
            warnings |-> {[kind |-> "invalid", label |-> CHOOSE k \in malformed : TRUE]}]
       ELSE
           [labels |-> [k \in present \cup {clusterTakenFromClusterKey \o l : l \in present} |->
                           IF k \in present THEN clusterLabels[k] ELSE <<>>],
            warnings |-> {[kind |-> "notfound", label |-> l] : l \in missing}]

\* BuildClusterName with the namespace appended instead of prefixed
BuildClusterNameSuffixed(s, namespace, c) ==
    s \o (IF c.EnableNamespacedNames THEN <<"-">> \o namespace ELSE <<>>)

BuildClusterName(s, namespace, c) ==
    (IF c.EnableNamespacedNames THEN namespace \o <<"-">> ELSE <<>>) \o s

\* BuildNamespacedName without the strings.TrimSuffix
BuildNamespacedNameUntrimmed(s, namespace, c) ==
    NN(c.ArgoNamespace, ClusterPrefix \o BuildClusterName(s, namespace, c))

BuildNamespacedName(s, namespace, c) ==
    NN(c.ArgoNamespace, ClusterPrefix \o BuildClusterName(TrimSuffix(s, KubeconfigSuffix), namespace, c))

\* json.Marshal of ArgoConfig: a nil pointer field is left out, a non-nil one
\* is written whatever it points to
JsonMarshal(config) ==
    LET tls == [k \in {f \in {"caData", "certData", "keyData"} : f \in DOMAIN config.TLSClientConfig}
                   |-> config.TLSClientConfig[k]]
    IN [k \in {"tlsClientConfig"} \cup (IF "BearerToken" \in DOMAIN config THEN {"bearerToken"} ELSE {}) |->
           IF k = "tlsClientConfig" THEN tls ELSE config.BearerToken]

\* NewArgoCluster reading the last user entry instead of Users[0]
NewArgoClusterLastUser(c, s, cluster, conf) ==
    LET first == c.kubeConfig.clusters[1]
        user == c.kubeConfig.users[Len(c.kubeConfig.users)]
        ptr(field, key) == IF key \in DOMAIN user THEN (field :> user[key]) ELSE EmptyMap
    IN [NamespacedName |-> BuildNamespacedName(s.name, s.namespace, conf),
        ClusterName |-> BuildClusterName(first.name, s.namespace, conf),
        ClusterServer |-> first.server,
        ClusterLabels |-> (SecretNameLabel :> (c.name \o KubeconfigSuffix))
                          @@ (SecretNamespaceLabel :> c.namespace),
        TakeAlongLabels |-> IF "nil" \in DOMAIN cluster THEN EmptyMap
                            ELSE buildTakeAlongLabels(cluster, conf).labels,
        ClusterConfig |->
            ptr("BearerToken", "token") @@
            [TLSClientConfig |-> ("caData" :> first.caData)
                                 @@ ptr("certData", "client-certificate-data")
                                 @@ ptr("keyData", "client-key-data")]]

\* NewArgoCluster(c, s, cluster, cfg); c is the CapiCluster (name, namespace,
\* kubeConfig), s the credential record with its identity
NewArgoCluster(c, s, cluster, conf) ==
    LET first == c.kubeConfig.clusters[1]
        user == c.kubeConfig.users[1]
        ptr(field, key) == IF key \in DOMAIN user THEN (field :> user[key]) ELSE EmptyMap
    IN [NamespacedName |-> BuildNamespacedName(s.name, s.namespace, conf),
        ClusterName |-> BuildClusterName(first.name, s.namespace, conf),
        ClusterServer |-> first.server,
        ClusterLabels |-> (SecretNameLabel :> (c.name \o KubeconfigSuffix))
                          @@ (SecretNamespaceLabel :> c.namespace),
        TakeAlongLabels |-> IF "nil" \in DOMAIN cluster THEN EmptyMap
                            ELSE buildTakeAlongLabels(cluster, conf).labels,
        ClusterConfig |->
            ptr("BearerToken", "token") @@
            [TLSClientConfig |-> ("caData" :> first.caData)
                                 @@ ptr("certData", "client-certificate-data")
                                 @@ ptr("keyData", "client-key-data")]]

\* ConvertToSecret merging the common labels last
ConvertToSecretCommonLast(a) ==
    [type |-> <<>>,
     labels |-> MapMerge(MapMerge(a.TakeAlongLabels, a.ClusterLabels), GetArgoCommonLabels),
     data |-> ("name" :> a.ClusterName) @@ ("server" :> a.ClusterServer)
              @@ ("config" :> JsonMarshal(a.ClusterConfig))]

\* ArgoCluster.ConvertToSecret
ConvertToSecret(a) ==
    [type |-> <<>>,
     labels |-> MapMerge(MapMerge(GetArgoCommonLabels, a.ClusterLabels), a.TakeAlongLabels),
     data |-> ("name" :> a.ClusterName) @@ ("server" :> a.ClusterServer)
              @@ ("config" :> JsonMarshal(a.ClusterConfig))]

ValidateObjectOwner(s) == Lookup(s.labels, OwnedLabel) = <<"true">>

----------------------------------------------------------------------------
(* the object store as Reconcile sees it *)

\* outcomes a store call can have besides the one the store's content gives:
\* each names the call that fails (at most one call fails per invocation,
\* since Reconcile returns at the first failure)
Faults == {"none", "getSource", "getOwner", "ownerNoMatch", "list", "delete",
           "deleteGone", "getTarget", "create", "update"}

Call(op, kind, key) == [op |-> op, kind |-> kind, key |-> key]

\* the faults that can strike a call: a call that was issued may fail
FaultsOf(call) ==
    CASE call.op = "get" /\ call.kind = "Cluster" -> {"getOwner", "ownerNoMatch"}
      [] call.op = "list" -> {"list"}
      [] call.op = "delete" -> {"delete", "deleteGone"}
      [] call.op = "create" -> {"create"}
      [] call.op = "update" -> {"update"}
      [] OTHER -> {"getSource", "getTarget"}

WriteOps == {"create", "update", "delete"}

\* the write calls among a sequence of calls
Writes(calls) == {i \in 1..Len(calls) : calls[i].op \in WriteOps}

CallsOf(calls, op) == {i \in 1..Len(calls) : calls[i].op = op}

\* client.MatchingLabels(labelSelector), client.InNamespace(ArgoNamespace)
MatchingSecrets(store, nn, conf) ==
    {k \in DOMAIN store :
        /\ k.namespace = conf.ArgoNamespace
        /\ SecretNameLabel \in DOMAIN store[k].labels
        /\ store[k].labels[SecretNameLabel] = nn.name
        /\ SecretNamespaceLabel \in DOMAIN store[k].labels
        /\ store[k].labels[SecretNamespaceLabel] = nn.namespace}

\* the API server gives a Secret created without a type the type Opaque
StoreCreate(store, key, obj) ==
    (key :> [obj EXCEPT !.type = IF obj.type = <<>> THEN SecretTypeOpaque ELSE obj.type]) @@ store

StoreUpdate(store, key, obj) == [store EXCEPT ![key] = obj]

StoreDelete(store, key) == [k \in DOMAIN store \ {key} |-> store[k]]

\* deleteArgoSecretByLabels without secretsDeletedTotal.Inc()
deleteArgoSecretByLabelsUncounted(store, conf, nn, fault, first) ==
    LET list == Call("list", "Secret", NN(conf.ArgoNamespace, <<>>))
        del == Call("delete", "Secret", first)
    IN IF fault = "list" THEN
           [err |-> ErrIO, calls |-> <<list>>, store |-> store, deleted |-> 0]
       ELSE IF MatchingSecrets(store, nn, conf) = {} THEN
           [err |-> ErrNone, calls |-> <<list>>, store |-> store, deleted |-> 0]
       ELSE IF fault = "delete" THEN
           [err |-> ErrIO, calls |-> <<list, del>>, store |-> store, deleted |-> 0]
       ELSE
           [err |-> ErrNone, calls |-> <<list, del>>, store |-> StoreDelete(store, first),
            deleted |-> 0]

\* deleteArgoSecretByLabels deleting every listed item, Items[0] first
deleteArgoSecretByLabelsAll(store, conf, nn, fault, first) ==
    LET list == Call("list", "Secret", NN(conf.ArgoNamespace, <<>>))
        del == Call("delete", "Secret", first)
        others == MatchingSecrets(store, nn, conf) \ {first}
        rest == IF others = {} THEN <<>>
                ELSE <<Call("delete", "Secret", CHOOSE k \in others : TRUE)>>
    IN IF fault = "list" THEN
           [err |-> ErrIO, calls |-> <<list>>, store |-> store, deleted |-> 0]
       ELSE IF MatchingSecrets(store, nn, conf) = {} THEN
           [err |-> ErrNone, calls |-> <<list>>, store |-> store, deleted |-> 0]
       ELSE IF fault = "delete" THEN
           [err |-> ErrIO, calls |-> <<list, del>>, store |-> store, deleted |-> 0]
       ELSE
           [err |-> ErrNone, calls |-> <<list, del>> \o rest,
            store |-> [k \in DOMAIN store \ MatchingSecrets(store, nn, conf) |-> store[k]],
            deleted |-> 1]

\* deleteArgoSecretByLabels treating a not-found answer of the delete as a
\* failure
deleteArgoSecretByLabelsStrict(store, conf, nn, fault, first) ==
    LET list == Call("list", "Secret", NN(conf.ArgoNamespace, <<>>))
        del == Call("delete", "Secret", first)
    IN IF fault = "list" THEN
           [err |-> ErrIO, calls |-> <<list>>, store |-> store, deleted |-> 0]
       ELSE IF MatchingSecrets(store, nn, conf) = {} THEN
           [err |-> ErrNone, calls |-> <<list>>, store |-> store, deleted |-> 0]
       ELSE IF fault = "delete" THEN
           [err |-> ErrIO, calls |-> <<list, del>>, store |-> store, deleted |-> 0]
       ELSE IF fault = "deleteGone" THEN
           [err |-> ErrIO, calls |-> <<list, del>>, store |-> StoreDelete(store, first),
            deleted |-> 0]
       ELSE
           [err |-> ErrNone, calls |-> <<list, del>>, store |-> StoreDelete(store, first),
            deleted |-> 1]

\* deleteArgoSecretByLabels: first is secretList.Items[0]
deleteArgoSecretByLabels(store, conf, nn, fault, first) ==
    LET list == Call("list", "Secret", NN(conf.ArgoNamespace, <<>>))
        del == Call("delete", "Secret", first)
    IN IF fault = "list" THEN
           [err |-> ErrIO, calls |-> <<list>>, store |-> store, deleted |-> 0]
       ELSE IF MatchingSecrets(store, nn, conf) = {} THEN
           [err |-> ErrNone, calls |-> <<list>>, store |-> store, deleted |-> 0]
       ELSE IF fault = "delete" THEN
           [err |-> ErrIO, calls |-> <<list, del>>, store |-> store, deleted |-> 0]
       ELSE
           \* also when the delete reports not-found (fault "deleteGone": the
           \* item was removed between the list and the delete)
           [err |-> ErrNone, calls |-> <<list, del>>, store |-> StoreDelete(store, first),
            deleted |-> 1]

----------------------------------------------------------------------------
(* Reconcile, lines 246-305: the comparison of the existing target with the
   desired one *)

\* bytes.Equal(existingSecret.Data[k], want): a missing key reads as nil,
\* which equals only the empty byte string
BytesEqual(data, k, want) == IF k \in DOMAIN data THEN data[k] = want ELSE want = <<>>

\* the payload keys Reconcile assigns
DataChanges(existing, argoCluster, argoSecret) ==
    (IF BytesEqual(existing.data, "name", argoCluster.ClusterName) THEN {} ELSE {"name"})
    \cup (IF BytesEqual(existing.data, "server", argoCluster.ClusterServer) THEN {} ELSE {"server"})
    \cup (IF "config" \in DOMAIN existing.data /\ existing.data["config"] = argoSecret.data["config"]
          THEN {} ELSE {"config"})

\* the keys named by the taken-from markers of the desired labels
TakenAlongKeys(labels) ==
    {SplitSecond(l, clusterTakenFromClusterKey) :
        l \in {x \in DOMAIN labels : HasPrefix(x, clusterTakenFromClusterKey)}}

\* the markers of the existing target whose key is no longer taken along
StaleMarkers(existing, argoCluster) ==
    {k \in DOMAIN existing.labels :
        /\ HasPrefix(k, clusterTakenFromClusterKey)
        /\ SplitSecond(k, clusterTakenFromClusterKey) \notin TakenAlongKeys(argoCluster.TakeAlongLabels)}

\* SyncLabels without delete(existingSecret.Labels, key): only the marker goes
SyncLabelsMarkerOnly(existing, argoCluster) ==
    MapMerge(MapDelete(existing.labels, StaleMarkers(existing, argoCluster)),
             argoCluster.TakeAlongLabels)

\* the labels of the existing target after the removal of the stale ones
\* and the assignment of the current ones
SyncLabels(existing, argoCluster) ==
    LET stale == StaleMarkers(existing, argoCluster)
        pruned == MapDelete(existing.labels,
                            stale \cup {SplitSecond(k, clusterTakenFromClusterKey) : k \in stale})
    IN MapMerge(pruned, argoCluster.TakeAlongLabels)

\* whether the label loops set changed: a stale marker was removed, or a
\* current label was missing or had another value after the removal
LabelsChanged(existing, argoCluster) ==
    LET stale == StaleMarkers(existing, argoCluster)
        pruned == MapDelete(existing.labels,
                            stale \cup {SplitSecond(k, clusterTakenFromClusterKey) : k \in stale})
    IN \/ stale # {}
       \/ \E k \in DOMAIN argoCluster.TakeAlongLabels :
             k \notin DOMAIN pruned \/ pruned[k] # argoCluster.TakeAlongLabels[k]

----------------------------------------------------------------------------
(* Capi2Argo.Reconcile *)

\* the outcome of one invocation: the branch taken, the returned error and
\* requeue request, the store calls issued in order, the store afterwards,
\* the counter increments, the record of the target namespace as fetched or
\* listed (before), and whether the fault given was met by a call (hit)
Outcome(branch, err, requeue, calls, store, c, u, d, before, hit) ==
    [branch |-> branch, err |-> err, requeue |-> requeue, calls |-> calls,
     store |-> store, created |-> c, updated |-> u, deleted |-> d,
     before |-> before, hit |-> hit]

\* lines 213-324: the target is built; fetch the existing one and converge
Converge(store, conf, argoCluster, argoSecret, calls0, fault) ==
    LET key == argoCluster.NamespacedName
        calls == Append(calls0, Call("get", "Secret", key))
        existing == store[key]
        dataChanges == DataChanges(existing, argoCluster, argoSecret)
        changed == dataChanges # {} \/ LabelsChanged(existing, argoCluster)
        want == ("name" :> argoCluster.ClusterName) @@ ("server" :> argoCluster.ClusterServer)
                @@ ("config" :> argoSecret.data["config"])
        newSecret == [existing EXCEPT
                        !.data = [k \in DOMAIN existing.data \cup dataChanges |->
                                     IF k \in dataChanges THEN want[k] ELSE existing.data[k]],
                        !.labels = SyncLabels(existing, argoCluster)]
    IN IF fault = "getTarget" THEN
           Outcome("targetError", ErrIO, FALSE, calls, store, 0, 0, 0, <<>>, TRUE)
       ELSE IF key \notin DOMAIN store THEN
           IF fault = "create" THEN
               Outcome("createError", ErrIO, FALSE, Append(calls, Call("create", "Secret", key)),
                       store, 0, 0, 0, <<>>, TRUE)
           ELSE
               Outcome("created", ErrNone, TRUE, Append(calls, Call("create", "Secret", key)),
                       StoreCreate(store, key, argoSecret), 1, 0, 0, <<>>, fault = "none")
       ELSE IF ~ValidateObjectOwner(existing) THEN
           Outcome("unmanaged", ErrNone, TRUE, calls, store, 0, 0, 0, <<existing>>, fault = "none")
       ELSE IF dataChanges # {} /\ DOMAIN existing.data = {} THEN
           \* existingSecret.Data is a nil map: the first assignment panics
           Outcome("panic", ErrPanic, FALSE, calls, store, 0, 0, 0, <<existing>>, fault = "none")
       ELSE IF changed THEN
           IF fault = "update" THEN
               Outcome("updateError", ErrIO, FALSE, Append(calls, Call("update", "Secret", key)),
                       store, 0, 0, 0, <<existing>>, TRUE)
           ELSE
               Outcome("updated", ErrNone, TRUE, Append(calls, Call("update", "Secret", key)),
                       StoreUpdate(store, key, newSecret), 0, 1, 0, <<existing>>, fault = "none")
       ELSE
           Outcome("insync", ErrNone, TRUE, calls, store, 0, 0, 0, <<existing>>, fault = "none")

\* Cleanup asking for no requeue after a successful cleanup
CleanupNoRequeue(branch, store, conf, nn, calls0, fault, first, requeueOnError) ==
    LET d == deleteArgoSecretByLabels(store, conf, nn, fault, first)
    IN Outcome(branch, d.err, d.err # ErrNone /\ requeueOnError, calls0 \o d.calls, d.store,
               0, 0, d.deleted, IF Len(d.calls) = 2 THEN <<store[first]>> ELSE <<>>,
               \/ fault = "none"
               \/ fault = "ownerNoMatch" /\ branch = "ownerGone"
               \/ fault = "list"
               \/ fault \in {"delete", "deleteGone"} /\ Len(d.calls) = 2)

\* lines 137-147 and 174-180: the cleanup of the target of nn
Cleanup(branch, store, conf, nn, calls0, fault, first, requeueOnError) ==
    LET d == deleteArgoSecretByLabels(store, conf, nn, fault, first)
    IN Outcome(branch, d.err, d.err = ErrNone \/ requeueOnError, calls0 \o d.calls, d.store,
               0, 0, d.deleted, IF Len(d.calls) = 2 THEN <<store[first]>> ELSE <<>>,
               \/ fault = "none"
               \/ fault = "ownerNoMatch" /\ branch = "ownerGone"
               \/ fault = "list"
               \/ fault \in {"delete", "deleteGone"} /\ Len(d.calls) = 2)

\* Build with the cleanup for a missing owner made only when garbage
\* collection is enabled
BuildCollectingIfEnabled(store, cls, conf, req, calls0, fault, first) ==
    LET capiSecret == store[req]
        valid == ValidateCapiSecret(capiSecret)
        um == Unmarshal(capiSecret)
        capiCluster == [name |-> TrimSuffix(req.name, KubeconfigSuffix),
                        namespace |-> req.namespace, kubeConfig |-> um.kubeConfig]
        ownerKey == NN(req.namespace, Lookup(capiSecret.labels, ClusterNameLabel))
        calls == Append(calls0, Call("get", "Cluster", ownerKey))
        argoCluster == NewArgoCluster(capiCluster, req, cls[ownerKey], conf)
    IN IF valid # ErrNone THEN
           Outcome("invalidSecret", valid, FALSE, calls0, store, 0, 0, 0, <<>>, fault = "none")
       ELSE IF um.err # ErrNone THEN
           Outcome("invalidKubeConfig", um.err, FALSE, calls0, store, 0, 0, 0, <<>>, fault = "none")
       ELSE IF fault = "getOwner" THEN
           Outcome("ownerError", ErrIO, TRUE, calls, store, 0, 0, 0, <<>>, TRUE)
       ELSE IF fault = "ownerNoMatch" \/ ownerKey \notin DOMAIN cls THEN
           IF conf.EnableGarbageCollection THEN
               Cleanup("ownerGone", store, conf, req, calls, fault, first, TRUE)
           ELSE
               Outcome("ownerGone", ErrNone, TRUE, calls, store, 0, 0, 0, <<>>,
                       fault \in {"none", "ownerNoMatch"})
       ELSE IF validateClusterIgnoreLabel(cls[ownerKey]) THEN
           Outcome("ignored", ErrNone, TRUE, calls, store, 0, 0, 0, <<>>, fault = "none")
       ELSE
           Converge(store, conf, argoCluster, ConvertToSecret(argoCluster), calls, fault)

\* lines 149-211: the credential record is fetched
Build(store, cls, conf, req, calls0, fault, first) ==
    LET capiSecret == store[req]
        valid == ValidateCapiSecret(capiSecret)
        um == Unmarshal(capiSecret)
        capiCluster == [name |-> TrimSuffix(req.name, KubeconfigSuffix),
                        namespace |-> req.namespace, kubeConfig |-> um.kubeConfig]
        ownerKey == NN(req.namespace, Lookup(capiSecret.labels, ClusterNameLabel))
        calls == Append(calls0, Call("get", "Cluster", ownerKey))
        argoCluster == NewArgoCluster(capiCluster, req, cls[ownerKey], conf)
    IN IF valid # ErrNone THEN
           Outcome("invalidSecret", valid, FALSE, calls0, store, 0, 0, 0, <<>>, fault = "none")
       ELSE IF um.err # ErrNone THEN
           Outcome("invalidKubeConfig", um.err, FALSE, calls0, store, 0, 0, 0, <<>>, fault = "none")
       ELSE IF fault = "getOwner" THEN
           Outcome("ownerError", ErrIO, TRUE, calls, store, 0, 0, 0, <<>>, TRUE)
       ELSE IF fault = "ownerNoMatch" \/ ownerKey \notin DOMAIN cls THEN
           Cleanup("ownerGone", store, conf, req, calls, fault, first, TRUE)
       ELSE IF validateClusterIgnoreLabel(cls[ownerKey]) THEN
           Outcome("ignored", ErrNone, TRUE, calls, store, 0, 0, 0, <<>>, fault = "none")
       ELSE
           \* the target built is one value, handed on to the rest of the pass
           CHOOSE out \in {Converge(store, conf, ac, ConvertToSecret(ac), calls, fault) :
                              ac \in {argoCluster}} : TRUE

\* SourceGone without the test of EnableGarbageCollection
SourceGoneAlwaysCollects(store, conf, req, calls, fault, first) ==
    Cleanup("sourceGone", store, conf, req, calls, fault, first, FALSE)

\* SourceGone returning ctrl.Result{} when garbage collection is off
SourceGoneNoRequeue(store, conf, req, calls, fault, first) ==
    IF conf.EnableGarbageCollection THEN
        Cleanup("sourceGone", store, conf, req, calls, fault, first, FALSE)
    ELSE
        Outcome("sourceGone", ErrNone, FALSE, calls, store, 0, 0, 0, <<>>, fault = "none")

\* lines 136-146: the credential record was not found
SourceGone(store, conf, req, calls, fault, first) ==
    IF conf.EnableGarbageCollection THEN
        Cleanup("sourceGone", store, conf, req, calls, fault, first, FALSE)
    ELSE
        Outcome("sourceGone", ErrNone, TRUE, calls, store, 0, 0, 0, <<>>, fault = "none")

\* Reconcile without the test of ValidateCapiNaming
ReconcileResultAnyName(store, cls, conf, req, fault, first) ==
    LET calls == <<Call("get", "Secret", req)>>
    IN IF fault = "getSource" THEN
           Outcome("sourceError", ErrIO, FALSE, calls, store, 0, 0, 0, <<>>, TRUE)
       ELSE IF req \notin DOMAIN store THEN
           SourceGone(store, conf, req, calls, fault, first)
       ELSE
           Build(store, cls, conf, req, calls, fault, first)

\* Reconcile(ctx, req) on the store (secrets store, clusters cls)
ReconcileResult(store, cls, conf, req, fault, first) ==
    LET calls == <<Call("get", "Secret", req)>>
    IN IF ~ValidateCapiNaming(req) THEN
           Outcome("naming", ErrNone, FALSE, <<>>, store, 0, 0, 0, <<>>, fault = "none")
       ELSE IF fault = "getSource" THEN
           Outcome("sourceError", ErrIO, FALSE, calls, store, 0, 0, 0, <<>>, TRUE)
       ELSE IF req \notin DOMAIN store THEN
           SourceGone(store, conf, req, calls, fault, first)
       ELSE
           Build(store, cls, conf, req, calls, fault, first)

----------------------------------------------------------------------------
(* the objects the store is populated with *)

MaxWrites == 2

ArgoNs == <<"argocd">>
N1 == <<"n1">>

S1 == NN(N1, <<"a", "-", "kubeconfig">>)
SU == NN(N1, <<"a", "-", "user", "-", "kubeconfig">>)
Owner1 == NN(N1, <<"a">>)
TargetPlain == NN(ArgoNs, <<"cluster", "-", "a">>)
TargetNamespaced == NN(ArgoNs, <<"cluster", "-", "n1", "-", "a">>)

\* the identities Reconcile is invoked for: a credential record, a per-user
\* record, and a record of the target namespace named like a target
Requests == {S1, SU, TargetPlain}
TargetKeys == {TargetPlain, TargetNamespaced}

Configs ==
    [ArgoNamespace : {ArgoNs}, AllowedNamespaces : {<<>>},
     EnableGarbageCollection : BOOLEAN, EnableNamespacedNames : {FALSE},
     EnableAutoLabelCopy : BOOLEAN]

KubeConfigDoc(clusterList, userList) ==
    [decodes |-> TRUE,
     fields |-> [apiVersion |-> <<"v1">>, kind |-> <<"Config">>,
                 clusters |-> clusterList, users |-> userList]]

CertUser == ("client-certificate-data" :> <<"cert">>) @@ ("client-key-data" :> <<"key">>)

KC1 == KubeConfigDoc(<<[name |-> <<"a">>, server |-> <<"https://a">>, caData |-> <<"ca">>]>>,
                     <<CertUser>>)

CapiSecret(type, payload) ==
    [type |-> type, labels |-> (ClusterNameLabel :> <<"a">>), data |-> payload]

SourceValues ==
    { CapiSecret(CapiClusterSecretType, "value" :> KC1),
      CapiSecret(<<"foo/bar">>, "value" :> KC1),
      CapiSecret(CapiClusterSecretType, EmptyMap),
      CapiSecret(CapiClusterSecretType, "value" :> KubeConfigDoc(<<>>, <<CertUser>>)) }

Env == <<"env">>

OwnerLabelSets ==
    { (Env :> <<"x">>),
      (Env :> <<"x">>) @@ ((clusterTakeAlongKey \o Env) :> <<>>),
      (Env :> <<"y">>) @@ ((clusterTakeAlongKey \o Env) :> <<>>),
      (Env :> <<"x">>) @@ (clusterIgnoreKey :> <<>>) }

\* records in the target namespace that the engine did not make in this
\* run: they carry the linkage labels of S1, with or without the ownership
\* label
ForeignData ==
    ("name" :> <<"other">>) @@ ("server" :> <<"https://other">>)
    @@ ("config" :> ("bearerToken" :> <<"t">>))

ForeignTargets ==
    { [type |-> SecretTypeOpaque,
       labels |-> own @@ (SecretTypeLabel :> <<"cluster">>)
                  @@ (SecretNameLabel :> S1.name) @@ (SecretNamespaceLabel :> S1.namespace),
       data |-> ForeignData] : own \in {EmptyMap, (OwnedLabel :> <<"true">>)} }

\* the record an earlier run of the engine made for S1 when the owner had
\* the labels ownerLabels
Leftover(conf, ownerLabels) ==
    LET capiCluster == [name |-> TrimSuffix(S1.name, KubeconfigSuffix), namespace |-> S1.namespace,
                        kubeConfig |-> YamlUnmarshal(KC1)]
        made == ConvertToSecret(NewArgoCluster(capiCluster, S1, [labels |-> ownerLabels], conf))
    IN [made EXCEPT !.type = SecretTypeOpaque]

\* out-of-band edits of a record of the target namespace
Edits == {"server", "clear"}

Edited(rec, edit) ==
    CASE edit = "server" -> [rec EXCEPT !.data = ("server" :> <<"https://stale">>) @@ rec.data]
      [] edit = "clear" -> [rec EXCEPT !.data = EmptyMap]

----------------------------------------------------------------------------
(* state machine *)

Idle ==
    [req |-> NN(<<>>, <<>>), fault |-> "none", branch |-> "idle", err |-> ErrNone,
     requeue |-> FALSE, calls |-> <<>>, before |-> <<>>]

Init ==
    /\ cfg \in Configs
    /\ secrets = [k \in {} |-> <<>>]
    /\ clusters = [k \in {} |-> <<>>]
    /\ created = 0
    /\ updated = 0
    /\ deleted = 0
    /\ queue = {}
    /\ inflight = EmptyMap
    /\ last = Idle

\* a Secret event passes the predicate of SetupWithManager and puts the
\* identity on the work queue
Enqueue(key) == IF EventFilter(cfg, key) THEN queue \cup {key} ELSE queue

\* something other than the engine writes a Secret
ExternalPut(key, val) ==
    /\ IF key \in DOMAIN secrets THEN secrets[key] # val ELSE TRUE
    /\ secrets' = (key :> val) @@ secrets
    /\ queue' = Enqueue(key)
    /\ last' = Idle
    /\ UNCHANGED <<cfg, clusters, created, updated, deleted, inflight>>

ExternalEdit(key, edit) ==
    /\ key \in DOMAIN secrets
    /\ edit = "server" => "server" \in DOMAIN secrets[key].data
    /\ ExternalPut(key, Edited(secrets[key], edit))

ExternalDelete(key) ==
    /\ key \in DOMAIN secrets
    /\ secrets' = StoreDelete(secrets, key)
    /\ queue' = Enqueue(key)
    /\ last' = Idle
    /\ UNCHANGED <<cfg, clusters, created, updated, deleted, inflight>>

\* the provisioning system writes or removes a Cluster; the engine does not
\* watch Clusters
PutCluster(key, labels) ==
    /\ IF key \in DOMAIN clusters THEN clusters[key].labels # labels ELSE TRUE
    /\ clusters' = (key :> [labels |-> labels]) @@ clusters
    /\ last' = Idle
    /\ UNCHANGED <<cfg, secrets, created, updated, deleted, queue, inflight>>

DeleteCluster(key) ==
    /\ key \in DOMAIN clusters
    /\ clusters' = [k \in DOMAIN clusters \ {key} |-> clusters[k]]
    /\ last' = Idle
    /\ UNCHANGED <<cfg, secrets, created, updated, deleted, queue, inflight>>

\* the choices for secretList.Items[0]: the list order is the store's
FirstChoices(req) ==
    LET m == MatchingSecrets(secrets, req, cfg)
    IN IF m = {} THEN {NN(<<>>, <<>>)} ELSE m

\* one invocation of Reconcile for req in which the call named by fault
\* fails and the list, if made, returns first as its first item; the
\* controller puts req back on the queue when the result asks for a requeue
\* or carries an error
ReconcileStep(req, fault, first) ==
    \E r \in {ReconcileResult(secrets, clusters, cfg, req, fault, first)} :
        /\ r.hit
        /\ created + updated + deleted + r.created + r.updated + r.deleted <= MaxWrites
        /\ secrets' = r.store
        /\ created' = created + r.created
        /\ updated' = updated + r.updated
        /\ deleted' = deleted + r.deleted
        /\ queue' = IF r.requeue \/ r.err # ErrNone THEN queue \cup {req} ELSE queue \ {req}
        /\ last' = [req |-> req, fault |-> fault, branch |-> r.branch, err |-> r.err,
                    requeue |-> r.requeue, calls |-> r.calls, before |-> r.before]
        /\ UNCHANGED <<cfg, clusters, inflight>>

\* the faults that can strike the invocation: those of the calls it issues
FaultChoices(req, first) ==
    {"none"} \cup UNION {FaultsOf(c) :
        c \in Range(ReconcileResult(secrets, clusters, cfg, req, "none", first).calls)}

Reconcile(req) ==
    \E first \in FirstChoices(req) : \E fault \in FaultChoices(req, first) :
        ReconcileStep(req, fault, first)

\* an invocation all of whose store calls succeed
ReconcileOK(req) == \E first \in FirstChoices(req) : ReconcileStep(req, "none", first)

\* the environment changes the store up to the engine's first write; from
\* then on the engine runs alone, up to MaxWrites writes
Quiet == created + updated + deleted = 0

Next ==
    \/ \E req \in Requests : Reconcile(req)
    \/ Quiet /\ \E val \in SourceValues : ExternalPut(S1, val)
    \/ Quiet /\ \E key \in TargetKeys : \E val \in ForeignTargets : ExternalPut(key, val)
    \/ Quiet /\ \E labels \in OwnerLabelSets : ExternalPut(TargetPlain, Leftover(cfg, labels))
    \/ Quiet /\ \E edit \in Edits : ExternalEdit(TargetPlain, edit)
    \/ Quiet /\ \E key \in {S1} \cup TargetKeys : ExternalDelete(key)
    \/ Quiet /\ \E labels \in OwnerLabelSets : PutCluster(Owner1, labels)
    \/ Quiet /\ DeleteCluster(Owner1)

Spec == Init /\ [][Next]_vars

----------------------------------------------------------------------------
(* the self-healing loop: one credential record with its owner, both left
   alone; the controller dispatches the queued identity, whose passes may
   meet transient store errors, and somebody edits the target out-of-band *)

GoodSource == CapiSecret(CapiClusterSecretType, "value" :> KC1)

TransientFaults == {"none", "getSource", "getOwner", "getTarget", "create", "update"}

LiveInit ==
    /\ cfg \in Configs
    /\ secrets = (S1 :> GoodSource)
    /\ \E labels \in {l \in OwnerLabelSets : clusterIgnoreKey \notin DOMAIN l} :
          clusters = (Owner1 :> [labels |-> labels])
    /\ created = 0
    /\ updated = 0
    /\ deleted = 0
    /\ queue = {S1}
    /\ inflight = EmptyMap
    /\ last = Idle

\* the controller takes a queued identity and runs Reconcile for it
Dispatch ==
    \E req \in queue : \E first \in FirstChoices(req) : \E fault \in TransientFaults :
        ReconcileStep(req, fault, first)

\* every edit leaves the engine one write to answer it with
Tamper ==
    /\ created + updated + deleted < MaxWrites
    /\ \E edit \in Edits : ExternalEdit(TargetPlain, edit)

LiveNext ==
    \/ Dispatch
    \/ Tamper

\* RequeueAfter and the rate-limited retry bring the identity back, and the
\* store does not fail forever
LiveSpec ==
    LiveInit /\ [][LiveNext]_vars /\ WF_vars(S1 \in queue /\ ReconcileOK(S1))

----------------------------------------------------------------------------
(* the steady state: a fixed set of credential records and Clusters in two
   namespaces, left alone, whose identities are reconciled again and again *)

S2 == NN(<<"n2">>, <<"a", "-", "kubeconfig">>)

\* the credential payload of another cluster with the same name
KC2 == KubeConfigDoc(<<[name |-> <<"a">>, server |-> <<"https://b">>, caData |-> <<"ca">>]>>,
                     <<CertUser>>)

\* the credential records are none, that of n1 alone, or those of n1 and
\* n2; the Cluster of n1 has no labels or takes env along, now and when an
\* earlier run was made; the target namespace has at cluster-a nothing, a
\* record an earlier run made, or a foreign one, and at cluster-n1-a nothing
\* or a foreign one carrying the ownership label
SteadyInit ==
    LET sources == { EmptyMap, (S1 :> GoodSource),
                     (S1 :> GoodSource)
                     @@ (S2 :> CapiSecret(CapiClusterSecretType, "value" :> KC2)) }
        ownerLabels == { EmptyMap, (Env :> <<"x">>) @@ ((clusterTakeAlongKey \o Env) :> <<>>) }
        plain == {EmptyMap}
                 \cup {(TargetPlain :> Leftover(cfg, l)) : l \in ownerLabels}
                 \cup {(TargetPlain :> t) : t \in ForeignTargets}
        namespaced == {EmptyMap}
                      \cup {(TargetNamespaced :> t) : t \in {f \in ForeignTargets : ValidateObjectOwner(f)}}
    IN /\ cfg \in [ArgoNamespace : {ArgoNs}, AllowedNamespaces : {<<>>},
                   EnableGarbageCollection : BOOLEAN, EnableNamespacedNames : BOOLEAN,
                   EnableAutoLabelCopy : BOOLEAN]
       /\ \E src \in sources : \E p \in plain : \E n \in namespaced : secrets = src @@ p @@ n
       /\ \E labels \in ownerLabels :
             clusters = (Owner1 :> [labels |-> labels])
                        @@ (NN(S2.namespace, <<"a">>) :> [labels |-> EmptyMap])
       /\ created = 0
       /\ updated = 0
       /\ deleted = 0
       /\ queue = {S1, S2}
       /\ inflight = EmptyMap
       /\ last = Idle

\* the periodic requeue brings every identity back, and the store does not
\* fail forever
SteadySpec ==
    /\ SteadyInit
    /\ [][Dispatch]_vars
    /\ WF_vars(S1 \in queue /\ ReconcileOK(S1))
    /\ WF_vars(S2 \in queue /\ ReconcileOK(S2))

----------------------------------------------------------------------------
(* observations the properties are stated with *)

\* the step is an invocation of Reconcile for req
EnginePass(req) == last'.branch # "idle" /\ last'.req = req

\* a credential record that passes validation, stated on the record itself
IsValidSource(s) ==
    /\ \/ s.type = CapiClusterSecretType
       \/ s.type = SecretTypeOpaque /\ ClusterNameLabel \in DOMAIN s.labels
    /\ "value" \in DOMAIN s.data
    /\ s.data["value"].decodes
    /\ {"apiVersion", "kind", "clusters", "users"} \subseteq DOMAIN s.data["value"].fields
    /\ s.data["value"].fields["apiVersion"] = <<"v1">>
    /\ s.data["value"].fields["kind"] = <<"Config">>
    /\ Len(s.data["value"].fields["clusters"]) > 0
    /\ Len(s.data["value"].fields["users"]) > 0

\* S1 is present and valid and its owner exists without the ignore label
Convergent ==
    /\ S1 \in DOMAIN secrets
    /\ IsValidSource(secrets[S1])
    /\ Owner1 \in DOMAIN clusters
    /\ clusterIgnoreKey \notin DOMAIN clusters[Owner1].labels

\* the ArgoCluster built from S1 and its owner as they are in the store
Desired ==
    NewArgoCluster([name |-> TrimSuffix(S1.name, KubeconfigSuffix), namespace |-> S1.namespace,
                    kubeConfig |-> YamlUnmarshal(secrets[S1].data["value"])],
                   S1, clusters[Owner1], cfg)

DesiredData == ConvertToSecret(Desired).data

\* the payload keys of rec that differ from the desired ones
Differing(rec) ==
    {k \in {"name", "server", "config"} :
        IF k \in DOMAIN rec.data THEN rec.data[k] # DesiredData[k] ELSE TRUE}

\* the records of the target namespace carrying the linkage labels of nn
Linked(nn) ==
    {k \in DOMAIN secrets :
        /\ k.namespace = cfg.ArgoNamespace
        /\ Lookup(secrets[k].labels, SecretNameLabel) = nn.name
        /\ Lookup(secrets[k].labels, SecretNamespaceLabel) = nn.namespace}

Owned(rec) == OwnedLabel \in DOMAIN rec.labels /\ rec.labels[OwnedLabel] = <<"true">>

\* the calls of the pass just made, by operation
LastCalls(op) == {i \in 1..Len(last'.calls) : last'.calls[i].op = op}

----------------------------------------------------------------------------
(* properties *)

\* C1 - ownership safety: no invocation of Reconcile, whatever its path and
\* whatever store call fails, updates or deletes a record of the target
\* namespace whose label capi-to-argocd/owned is not "true"
C1_OwnershipSafety ==
    [][\A k \in DOMAIN secrets :
          (last'.branch # "idle" /\ k.namespace = cfg.ArgoNamespace /\ ~Owned(secrets[k]))
          => /\ k \in DOMAIN secrets'
             /\ secrets'[k] = secrets[k]
             /\ \A i \in LastCalls("update") \cup LastCalls("delete") : last'.calls[i].key # k]_vars

\* C2 - idempotence: when an invocation for an identity returned no error
\* and nothing else changed the store since, the next invocation for that
\* identity issues no create, no update and no delete (the store answers
\* every call of both invocations from its content)
C2_Idempotence ==
    [][\A req \in Requests :
          (last.branch # "idle" /\ last.req = req /\ last.fault = "none" /\ last.err = ErrNone
              /\ EnginePass(req) /\ last'.fault = "none")
          => /\ Writes(last'.calls) = {}
             /\ secrets' = secrets]_vars

\* C2 when no record carrying the identity's linkage labels is left behind
\* by a pass that deleted one
C2_IdempotenceOneLinked ==
    [][\A req \in Requests :
          (last.branch # "idle" /\ last.req = req /\ last.fault = "none" /\ last.err = ErrNone
              /\ EnginePass(req) /\ last'.fault = "none"
              /\ (CallsOf(last.calls, "delete") # {} => Linked(req) = {}))
          => /\ Writes(last'.calls) = {}
             /\ secrets' = secrets]_vars

\* C3 - creation: with namespaced names off, a valid credential record
\* a-kubeconfig whose owner exists without the ignore label, and no record
\* at cluster-a in the target namespace, an invocation whose store calls
\* succeed issues exactly one create, of cluster-a in the target namespace,
\* and no other write, adds one to the created counter only, and returns
\* no error with a requeue
C3_Creation ==
    [][(EnginePass(S1) /\ last'.fault = "none" /\ Convergent
            /\ ~cfg.EnableNamespacedNames /\ TargetPlain \notin DOMAIN secrets)
       => /\ Cardinality(LastCalls("create")) = 1
          /\ \A i \in LastCalls("create") :
                last'.calls[i] = Call("create", "Secret", NN(cfg.ArgoNamespace, <<"cluster", "-", "a">>))
          /\ LastCalls("update") = {} /\ LastCalls("delete") = {}
          /\ DOMAIN secrets' = DOMAIN secrets \cup {TargetPlain}
          /\ secrets'[TargetPlain].data = DesiredData
          /\ \A k \in DOMAIN secrets : secrets'[k] = secrets[k]
          /\ created' = created + 1 /\ updated' = updated /\ deleted' = deleted
          /\ last'.err = ErrNone /\ last'.requeue]_vars

C3_Witness ==
    /\ last.branch = "created" /\ last.req = S1 /\ last.fault = "none"
    /\ created = 1 /\ updated = 0 /\ deleted = 0
    /\ TargetPlain \in DOMAIN secrets
    /\ Owned(secrets[TargetPlain])

C5_GarbageCollection ==
    [][(EnginePass(S1) /\ last'.fault \in {"none", "deleteGone"}
            /\ S1 \notin DOMAIN secrets /\ cfg.EnableGarbageCollection)
       => /\ Cardinality(LastCalls("list")) = 1
          /\ \A i \in LastCalls("list") : last'.calls[i].key.namespace = cfg.ArgoNamespace
          /\ LastCalls("create") = {} /\ LastCalls("update") = {}
          /\ created' = created /\ updated' = updated
          /\ last'.err = ErrNone /\ last'.requeue
          /\ Linked(S1) = {} =>
                /\ LastCalls("delete") = {}
                /\ secrets' = secrets
                /\ deleted' = deleted
          /\ (Linked(S1) # {} /\ \A k \in Linked(S1) : Owned(secrets[k])) =>
                /\ Cardinality(LastCalls("delete")) = 1
                /\ \E k \in Linked(S1) :
                      /\ \A i \in LastCalls("delete") : last'.calls[i].key = k
                      /\ DOMAIN secrets' = DOMAIN secrets \ {k}
                      /\ \A j \in DOMAIN secrets' : secrets'[j] = secrets[j]
                /\ deleted' = deleted + 1]_vars

C5_Witness ==
    /\ last.branch = "sourceGone" /\ last.req = S1 /\ last.fault = "none"
    /\ cfg.EnableGarbageCollection
    /\ CallsOf(last.calls, "delete") # {}
    /\ Len(last.before) = 1
    /\ Owned(last.before[1])
    /\ deleted = 1

\* C6 - garbage collection disabled: when the credential record of a
\* well-named identity is not found and garbage collection is disabled, the
\* invocation issues no create, update, delete or list, leaves the store and
\* the counters as they were, and returns no error with a requeue
C6_NoGarbageCollection ==
    [][\A req \in Requests :
          (EnginePass(req) /\ last'.fault # "getSource"
              /\ HasSuffix(req.name, <<"-", "kubeconfig">>)
              /\ ~HasSuffix(req.name, <<"-", "user", "-", "kubeconfig">>)
              /\ req \notin DOMAIN secrets /\ ~cfg.EnableGarbageCollection)
          => /\ last'.calls = <<Call("get", "Secret", req)>>
             /\ secrets' = secrets
             /\ created' = created /\ updated' = updated /\ deleted' = deleted
             /\ last'.err = ErrNone /\ last'.requeue]_vars

C6_Witness ==
    /\ last.branch = "sourceGone" /\ last.req = S1
    /\ ~cfg.EnableGarbageCollection
    /\ last.requeue
    /\ S1 \notin DOMAIN secrets
    /\ \E k \in Linked(S1) : Owned(secrets[k])

C8_DiffAndConverge ==
    [][(EnginePass(S1) /\ last'.fault = "none" /\ Convergent
            /\ TargetPlain \in DOMAIN secrets /\ Owned(secrets[TargetPlain]))
       => IF Differing(secrets[TargetPlain]) # {} \/ LabelsChanged(secrets[TargetPlain], Desired)
          THEN /\ Cardinality(LastCalls("update")) = 1
               /\ \A i \in LastCalls("update") : last'.calls[i].key = TargetPlain
               /\ LastCalls("create") = {} /\ LastCalls("delete") = {}
               /\ TargetPlain \in DOMAIN secrets'
               /\ secrets'[TargetPlain].data =
                     [k \in DOMAIN secrets[TargetPlain].data \cup Differing(secrets[TargetPlain]) |->
                         IF k \in Differing(secrets[TargetPlain]) THEN DesiredData[k]
                         ELSE secrets[TargetPlain].data[k]]
               /\ updated' = updated + 1 /\ created' = created
          ELSE /\ Writes(last'.calls) = {}
               /\ secrets' = secrets]_vars

\* C8 for a target that holds at least one payload key
C8_DiffAndConvergeWithData ==
    [][(EnginePass(S1) /\ last'.fault = "none" /\ Convergent
            /\ TargetPlain \in DOMAIN secrets /\ Owned(secrets[TargetPlain])
            /\ DOMAIN secrets[TargetPlain].data # {})
       => IF Differing(secrets[TargetPlain]) # {} \/ LabelsChanged(secrets[TargetPlain], Desired)
          THEN /\ Cardinality(LastCalls("update")) = 1
               /\ secrets'[TargetPlain].data =
                     [k \in DOMAIN secrets[TargetPlain].data \cup Differing(secrets[TargetPlain]) |->
                         IF k \in Differing(secrets[TargetPlain]) THEN DesiredData[k]
                         ELSE secrets[TargetPlain].data[k]]
               /\ updated' = updated + 1 /\ created' = created
          ELSE Writes(last'.calls) = {}]_vars

\* the owned target's payload is not the desired one
Drifted ==
    /\ TargetPlain \in DOMAIN secrets
    /\ Owned(secrets[TargetPlain])
    /\ Differing(secrets[TargetPlain]) # {}

Healed ==
    /\ TargetPlain \in DOMAIN secrets
    /\ Differing(secrets[TargetPlain]) = {}

\* C9 - self-healing: with the credential record and its owner left alone,
\* an owned target whose name, server or config was edited out-of-band has
\* the desired name, server and config again at some later time, by the
\* periodic requeue alone
C9_SelfHealing == Drifted ~> Healed

\* C9 unless an edit strips the target of every payload key
C9_SelfHealingWithData ==
    Drifted ~> (Healed \/ (TargetPlain \in DOMAIN secrets /\ DOMAIN secrets[TargetPlain].data = {}))

\* C10 - label pruning: in take-along mode, when the owned and otherwise
\* converged target carries the label env and its taken-from marker and the
\* owner no longer asks for env, an invocation whose store calls succeed
\* issues exactly one update, after which the target has its former labels
\* but those two, each with its former value, and its former payload
C10_LabelPruning ==
    [][(EnginePass(S1) /\ last'.fault = "none" /\ Convergent
            /\ ~cfg.EnableAutoLabelCopy
            /\ (clusterTakeAlongKey \o Env) \notin DOMAIN clusters[Owner1].labels
            /\ TargetPlain \in DOMAIN secrets /\ Owned(secrets[TargetPlain])
            /\ Differing(secrets[TargetPlain]) = {}
            /\ {Env, clusterTakenFromClusterKey \o Env} \subseteq DOMAIN secrets[TargetPlain].labels)
       => /\ Cardinality(LastCalls("update")) = 1
          /\ Cardinality(Writes(last'.calls)) = 1
          /\ \A i \in LastCalls("update") : last'.calls[i].key = TargetPlain
          /\ TargetPlain \in DOMAIN secrets'
          /\ secrets'[TargetPlain].labels =
                [k \in DOMAIN secrets[TargetPlain].labels \ {Env, clusterTakenFromClusterKey \o Env}
                    |-> secrets[TargetPlain].labels[k]]
          /\ secrets'[TargetPlain].data = secrets[TargetPlain].data
          /\ \A k \in DOMAIN secrets \ {TargetPlain} : k \in DOMAIN secrets' /\ secrets'[k] = secrets[k]]_vars

C10_Witness ==
    /\ last.branch = "updated" /\ last.req = S1 /\ last.fault = "none"
    /\ ~cfg.EnableAutoLabelCopy
    /\ Len(last.before) = 1
    /\ {Env, clusterTakenFromClusterKey \o Env} \subseteq DOMAIN last.before[1].labels
    /\ TargetPlain \in DOMAIN secrets
    /\ Env \notin DOMAIN secrets[TargetPlain].labels
    /\ (clusterTakenFromClusterKey \o Env) \notin DOMAIN secrets[TargetPlain].labels
    /\ secrets[TargetPlain].data = last.before[1].data
    /\ updated = 1

\* C11 - ignore check: when the owner of a valid credential record carries
\* the key ignore-cluster.capi-to-argocd, an invocation that fetched both
\* issues no create, update or delete, leaves the store (an existing target
\* included) and the counters as they were, and returns no error with a
\* requeue; when the owner lacks the key the invocation goes on to fetch the
\* target; validateClusterIgnoreLabel is true for a cluster with the key,
\* whatever its value, false for one without it and false for a nil cluster
C11_IgnoreCheck ==
    [][/\ ~validateClusterIgnoreLabel(NilCluster)
       /\ \A v \in {<<>>, <<"true">>, <<"false">>} :
             /\ validateClusterIgnoreLabel([labels |-> (<<"ignore-cluster.capi-to-argocd">> :> v)])
             /\ ~validateClusterIgnoreLabel([labels |-> (<<"env">> :> v)])
       /\ (EnginePass(S1) /\ last'.fault \notin {"getSource", "getOwner", "ownerNoMatch"}
              /\ S1 \in DOMAIN secrets /\ IsValidSource(secrets[S1]) /\ Owner1 \in DOMAIN clusters)
          => IF <<"ignore-cluster.capi-to-argocd">> \in DOMAIN clusters[Owner1].labels
             THEN /\ Writes(last'.calls) = {}
                  /\ last'.calls = <<Call("get", "Secret", S1), Call("get", "Cluster", Owner1)>>
                  /\ secrets' = secrets
                  /\ created' = created /\ updated' = updated /\ deleted' = deleted
                  /\ last'.err = ErrNone /\ last'.requeue
             ELSE /\ Len(last'.calls) >= 3
                  /\ last'.calls[3].op = "get" /\ last'.calls[3].kind = "Secret"]_vars

C11_Witness ==
    /\ last.branch = "ignored" /\ last.req = S1
    /\ clusterIgnoreKey \in DOMAIN clusters[Owner1].labels
    /\ TargetPlain \in DOMAIN secrets
    /\ Owned(secrets[TargetPlain])
    /\ Differing(secrets[TargetPlain]) # {}
    /\ created + updated + deleted = 0

\* C12 - level-triggered requeue: an invocation that returns no error asks
\* for another pass after the sync period unless the identity fails the
\* naming precondition, and then it asks for none; on an existing target
\* without the ownership label it returns no error
C12_Requeue ==
    [][\A req \in Requests :
          /\ (EnginePass(req) /\ last'.err = ErrNone)
             => (last'.requeue <=> (/\ HasSuffix(req.name, <<"-", "kubeconfig">>)
                                   /\ ~HasSuffix(req.name, <<"-", "user", "-", "kubeconfig">>)))
          /\ (EnginePass(req) /\ req = S1 /\ last'.fault = "none" /\ Convergent
                 /\ TargetPlain \in DOMAIN secrets /\ ~Owned(secrets[TargetPlain]))
             => (last'.err = ErrNone /\ last'.requeue /\ secrets' = secrets)]_vars

C12_Witness ==
    /\ last.branch = "unmanaged" /\ last.req = S1
    /\ last.err = ErrNone /\ last.requeue
    /\ TargetPlain \in DOMAIN secrets
    /\ ~Owned(secrets[TargetPlain])

----------------------------------------------------------------------------
(* the helpers of Reconcile called on inputs of their own: one call per
   behaviour, its arguments and its result kept in last *)

MaxLabels == 4

MaxRaw == 5

UnitConfigs ==
    [ArgoNamespace : {ArgoNs, <<"argo", "-", "x">>}, AllowedNamespaces : {<<>>},
     EnableGarbageCollection : {FALSE}, EnableNamespacedNames : BOOLEAN,
     EnableAutoLabelCopy : BOOLEAN]

SourceNames ==
    { <<"a", "-", "kubeconfig">>, <<"c", "-", "kubeconfig">>, <<"b", "-", "c", "-", "kubeconfig">>,
      <<"a", "-", "kubeconfig", "-", "kubeconfig">>, <<"a", "-", "user", "-", "kubeconfig">>,
      <<"a">>, <<"-", "kubeconfig">> }

SourceNamespaces == { <<"n1">>, <<"a">>, <<"a", "-", "b">> }

SourceIds == {NN(ns, n) : ns \in SourceNamespaces, n \in SourceNames}

\* the labels a Cluster may carry, each with the value it has when present
UnitLabels ==
    (Env :> <<"x">>)
    @@ ((clusterTakeAlongKey \o Env) :> <<>>)
    @@ ((clusterTakeAlongKey \o <<"tier">>) :> <<>>)
    @@ (clusterTakeAlongKey :> <<>>)
    @@ ((clusterTakeAlongKey \o clusterTakeAlongKey \o <<"x/y">>) :> <<>>)
    @@ (clusterIgnoreKey :> <<>>)
    @@ (<<"kubernetes.io/", "zone">> :> <<"z">>)
    @@ (ClusterNameLabel :> <<"a">>)
    @@ (OwnedLabel :> <<"false">>)
    @@ ((clusterTakeAlongKey \o OwnedLabel) :> <<>>)
    @@ (SecretTypeLabel :> <<"repo">>)
    @@ (SecretNamespaceLabel :> <<"zz">>)
    @@ ((clusterTakeAlongKey \o SecretNamespaceLabel) :> <<>>)

UnitLabelSets ==
    {[k \in ks |-> UnitLabels[k]] :
        ks \in {s \in SUBSET DOMAIN UnitLabels : Cardinality(s) <= MaxLabels}}

UnitTypes == {CapiClusterSecretType, SecretTypeOpaque, <<"foo/bar">>, <<>>}

UnitDocs ==
    { [decodes |-> FALSE],
      KC1,
      KubeConfigDoc(<<>>, <<CertUser>>),
      KubeConfigDoc(KC1.fields.clusters, <<>>),
      [KC1 EXCEPT !.fields.apiVersion = <<"v2">>],
      [KC1 EXCEPT !.fields.kind = <<"Secret">>],
      [decodes |-> TRUE, fields |-> [clusters |-> KC1.fields.clusters, users |-> <<CertUser>>]] }

UnitSecrets ==
    {[type |-> ty, labels |-> ls, data |-> d] :
        ty \in UnitTypes,
        ls \in {EmptyMap, (ClusterNameLabel :> <<"a">>)},
        d \in {EmptyMap, ("other" :> KC1)} \cup {("value" :> doc) : doc \in UnitDocs}}

\* names for the naming predicate
UnitNames ==
    SourceNames \cup
    { <<>>, <<"kubeconfig">>, <<"user", "-", "kubeconfig">>, <<"-", "user", "-", "kubeconfig">>,
      <<"a", "-", "superuser", "-", "kubeconfig">>, <<"a", "-", "kubeconfig", "-", "x">>,
      <<"a", "-", "user", "-", "kubeconfig", "-", "kubeconfig">> }

\* the first user entry of a credential payload: the fields it carries
UnitUsers ==
    { CertUser,
      ("token" :> <<"t">>),
      CertUser @@ ("token" :> <<"t">>),
      ("client-certificate-data" :> <<"cert">>),
      EmptyMap }

\* certificate-authority-data of the first cluster entry; absent reads as ""
UnitCaData == { <<"ca">>, <<>> }

\* the clusters and users lists of a credential payload, of one or two
\* entries
UnitClusterLists ==
    LET entries == { [name |-> <<"a">>, server |-> <<"https://a">>, caData |-> <<"ca">>],
                     [name |-> <<"b">>, server |-> <<"https://b">>, caData |-> <<>>] }
    IN {<<e>> : e \in entries} \cup {<<e, f>> : e \in entries, f \in entries}

UnitUserLists == {<<u>> : u \in UnitUsers} \cup {<<u, v>> : u \in UnitUsers, v \in UnitUsers}

\* values of ALLOWED_NAMESPACES, character by character
RECURSIVE RawStrings(_)
RawStrings(n) ==
    IF n = 0 THEN {<<>>}
    ELSE LET shorter == RawStrings(n - 1)
         IN shorter \cup {Append(s, ch) : s \in {x \in shorter : Len(x) = n - 1},
                                          ch \in {",", " ", "\t", "a", "b"}}

UnitRaw == RawStrings(MaxRaw)

\* values of Config.AllowedNamespaces
UnitAllowLists ==
    { <<>>, << <<"n1">> >>, << <<"a">>, <<"n1">> >>, << <<"a", "-", "b">> >>, << <<"b">>, <<"a">> >> }

UnitInit ==
    /\ cfg \in UnitConfigs
    /\ secrets = [k \in {} |-> <<>>]
    /\ clusters = [k \in {} |-> <<>>]
    /\ created = 0
    /\ updated = 0
    /\ deleted = 0
    /\ queue = {}
    /\ inflight = EmptyMap
    /\ last = [op |-> "none"]

\* no helper was called yet
Fresh == last.op = "none"

\* a call is made once, from the initial state, and leaves all but last
Called(rec) ==
    /\ Fresh
    /\ last' = rec
    /\ UNCHANGED <<cfg, secrets, clusters, created, updated, deleted, queue, inflight>>

CallBuildNamespacedName(a, b) ==
    Called([op |-> "BuildNamespacedName", a |-> a, b |-> b,
            outA |-> BuildNamespacedName(a.name, a.namespace, cfg),
            outB |-> BuildNamespacedName(b.name, b.namespace, cfg),
            toggledA |-> BuildNamespacedName(a.name, a.namespace,
                            [cfg EXCEPT !.EnableNamespacedNames = ~@])])

CallBuildTakeAlongLabels(labels) ==
    Called([op |-> "buildTakeAlongLabels", labels |-> labels,
            out |-> buildTakeAlongLabels([labels |-> labels], cfg)])

CallConvertToSecret(id, cluster) ==
    Called([op |-> "ConvertToSecret", id |-> id, cluster |-> cluster,
            out |-> ConvertToSecret(NewArgoCluster(
                       [name |-> TrimSuffix(id.name, KubeconfigSuffix), namespace |-> id.namespace,
                        kubeConfig |-> YamlUnmarshal(KC1)], id, cluster, cfg))])

CallValidateCapiSecret(s) ==
    Called([op |-> "ValidateCapiSecret", s |-> s, out |-> ValidateCapiSecret(s)])

CallUnmarshal(s) ==
    Called([op |-> "Unmarshal", s |-> s, out |-> Unmarshal(s).err])

CallValidateCapiNaming(n) ==
    Called([op |-> "ValidateCapiNaming", n |-> n, out |-> ValidateCapiNaming(n)])

\* the config payload of the target built from a credential payload
CallNewArgoCluster(caData, user) ==
    LET doc == KubeConfigDoc(<<[name |-> <<"a">>, server |-> <<"https://a">>, caData |-> caData]>>,
                             <<user>>)
    IN Called([op |-> "NewArgoCluster", caData |-> caData, user |-> user,
               out |-> ConvertToSecret(NewArgoCluster(
                          [name |-> TrimSuffix(S1.name, KubeconfigSuffix), namespace |-> S1.namespace,
                           kubeConfig |-> YamlUnmarshal(doc)], S1, NilCluster, cfg)).data["config"]])

\* the payload of the target built from the credential record S1 holding
\* the lists given, and of the one built from their first entries alone
CallBuildTarget(clusterList, userList) ==
    LET build(cl, ul) ==
            ConvertToSecret(NewArgoCluster(
                [name |-> TrimSuffix(S1.name, KubeconfigSuffix), namespace |-> S1.namespace,
                 kubeConfig |-> YamlUnmarshal(KubeConfigDoc(cl, ul))], S1, NilCluster, cfg)).data
    IN Called([op |-> "BuildTarget", clusters |-> clusterList, users |-> userList,
               out |-> build(clusterList, userList),
               outFirst |-> build(<<clusterList[1]>>, <<userList[1]>>)])

\* the target a pass creates for the credential record id with the owner
\* cluster, and the cleanup pass for id made, with garbage collection
\* enabled, once id is gone and the store holds that target
CallRoundTrip(id, cluster) ==
    LET key == BuildNamespacedName(id.name, id.namespace, cfg)
        built == ConvertToSecret(NewArgoCluster(
                    [name |-> TrimSuffix(id.name, KubeconfigSuffix), namespace |-> id.namespace,
                     kubeConfig |-> YamlUnmarshal(KC1)], id, cluster, cfg))
        store == StoreCreate(EmptyMap, key, built)
        conf == [cfg EXCEPT !.EnableGarbageCollection = TRUE]
        found == MatchingSecrets(store, id, conf)
        pass == ReconcileResult(store, EmptyMap, conf, id, "none",
                                IF found = {} THEN NN(<<>>, <<>>) ELSE CHOOSE k \in found : TRUE)
    IN Called([op |-> "RoundTrip", id |-> id, cluster |-> cluster, key |-> key,
               made |-> store[key], calls |-> pass.calls, err |-> pass.err, store |-> pass.store])

CallParseNamespaceList(raw) ==
    Called([op |-> "parseNamespaceList", raw |-> raw, out |-> parseNamespaceList(raw)])

CallIsNamespaceAllowed(allowed, ns) ==
    Called([op |-> "IsNamespaceAllowed", allowed |-> allowed, ns |-> ns,
            out |-> IsNamespaceAllowed([cfg EXCEPT !.AllowedNamespaces = allowed], ns)])

CallEventFilter(allowed, nn) ==
    Called([op |-> "EventFilter", allowed |-> allowed, nn |-> nn,
            out |-> EventFilter([cfg EXCEPT !.AllowedNamespaces = allowed], nn)])

UnitNext ==
    \/ Fresh /\ \E a \in SourceIds : \E b \in SourceIds : CallBuildNamespacedName(a, b)
    \/ Fresh /\ \E labels \in UnitLabelSets : CallBuildTakeAlongLabels(labels)
    \/ Fresh /\ \E id \in {S1, NN(<<"a", "-", "b">>, <<"c", "-", "kubeconfig">>)} :
          \E cluster \in {NilCluster} \cup {[labels |-> l] : l \in UnitLabelSets} :
             CallConvertToSecret(id, cluster)
    \/ Fresh /\ \E s \in UnitSecrets : CallValidateCapiSecret(s)
    \/ Fresh /\ \E s \in UnitSecrets : CallUnmarshal(s)
    \/ Fresh /\ \E ns \in SourceNamespaces : \E name \in UnitNames : CallValidateCapiNaming(NN(ns, name))
    \/ Fresh /\ \E caData \in UnitCaData : \E user \in UnitUsers : CallNewArgoCluster(caData, user)
    \/ Fresh /\ \E cl \in UnitClusterLists : \E ul \in UnitUserLists : CallBuildTarget(cl, ul)
    \/ Fresh /\ \E id \in {S1, NN(<<"a", "-", "b">>, <<"c", "-", "kubeconfig">>)} :
          \E cluster \in {[labels |-> l] : l \in UnitLabelSets} : CallRoundTrip(id, cluster)
    \/ Fresh /\ \E raw \in UnitRaw : CallParseNamespaceList(raw)
    \/ Fresh /\ \E allowed \in UnitAllowLists : \E ns \in SourceNamespaces :
          CallIsNamespaceAllowed(allowed, ns)
    \/ Fresh /\ \E allowed \in UnitAllowLists : \E nn \in SourceIds : CallEventFilter(allowed, nn)

UnitSpec == UnitInit /\ [][UnitNext]_vars

----------------------------------------------------------------------------
(* properties of the helpers *)

\* a name without one trailing -kubeconfig
Stem(n) ==
    IF Len(n) >= 2 /\ n[Len(n) - 1] = "-" /\ n[Len(n)] = "kubeconfig"
    THEN SubSeq(n, 1, Len(n) - 2) ELSE n

\* a name that ends with -kubeconfig and not with -user-kubeconfig
WellNamed(n) ==
    /\ Stem(n) # n
    /\ ~(Len(n) >= 4 /\ n[Len(n) - 3] = "-" /\ n[Len(n) - 2] = "user")

\* C13 - target identity: BuildNamespacedName returns the namespace
\* Config.ArgoNamespace and the name cluster- followed, with namespaced
\* names on, by the source namespace and a hyphen, followed by the source
\* name without one trailing -kubeconfig (a name without the suffix whole);
\* equal inputs give equal results, and with EnableNamespacedNames toggled
\* the namespace is the same and the name is that of the other mode
C13_TargetIdentity ==
    last.op = "BuildNamespacedName" =>
        /\ last.outA.namespace = cfg.ArgoNamespace
        /\ last.outA.name =
              <<"cluster", "-">>
              \o (IF cfg.EnableNamespacedNames THEN last.a.namespace \o <<"-">> ELSE <<>>)
              \o Stem(last.a.name)
        /\ last.toggledA.namespace = last.outA.namespace
        /\ last.toggledA.name =
              <<"cluster", "-">>
              \o (IF cfg.EnableNamespacedNames THEN <<>> ELSE last.a.namespace \o <<"-">>)
              \o Stem(last.a.name)
        /\ last.a = last.b => last.outA = last.outB

C13_Witness ==
    /\ last.op = "BuildNamespacedName"
    /\ cfg.EnableNamespacedNames
    /\ cfg.ArgoNamespace = <<"argo", "-", "x">>
    /\ last.a = NN(<<"n1">>, <<"a", "-", "kubeconfig", "-", "kubeconfig">>)
    /\ last.outA = NN(<<"argo", "-", "x">>, <<"cluster", "-", "n1", "-", "a", "-", "kubeconfig">>)
    /\ last.toggledA.name = <<"cluster", "-", "a", "-", "kubeconfig">>

\* C14 - collision avoidance: with namespaced names on, two well-named
\* source identities that differ in namespace or in name get different
\* target names
C14_NoCollision ==
    (last.op = "BuildNamespacedName" /\ cfg.EnableNamespacedNames
        /\ WellNamed(last.a.name) /\ WellNamed(last.b.name) /\ last.a # last.b)
    => last.outA.name # last.outB.name

\* C14 for source namespaces without a hyphen
C14_NoCollisionPlainNamespaces ==
    (last.op = "BuildNamespacedName" /\ cfg.EnableNamespacedNames
        /\ WellNamed(last.a.name) /\ WellNamed(last.b.name) /\ last.a # last.b
        /\ "-" \notin Range(last.a.namespace) /\ "-" \notin Range(last.b.namespace))
    => last.outA.name # last.outB.name

\* the policy labels of the cluster given to the call kept in last
PolicyLabels ==
    IF "nil" \in DOMAIN last.cluster THEN EmptyMap
    ELSE buildTakeAlongLabels(last.cluster, cfg).labels

\* C15 - fixed labels: the target built for a well-named source and any
\* owner label set, in either label mode, carries capi-to-argocd/owned =
\* "true", argocd.argoproj.io/secret-type = "cluster",
\* capi-to-argocd/cluster-secret-name = the source name and
\* capi-to-argocd/cluster-namespace = the source namespace
C15_FixedLabels ==
    last.op = "ConvertToSecret" =>
        /\ Lookup(last.out.labels, <<"capi-to-argocd/", "owned">>) = <<"true">>
        /\ Lookup(last.out.labels, <<"argocd.argoproj.io/", "secret-type">>) = <<"cluster">>
        /\ Lookup(last.out.labels, <<"capi-to-argocd/", "cluster-secret-name">>) = last.id.name
        /\ Lookup(last.out.labels, <<"capi-to-argocd/", "cluster-namespace">>) = last.id.namespace

\* C15 when no policy label has the key of a fixed label
C15_FixedLabelsNoClash ==
    (last.op = "ConvertToSecret"
        /\ DOMAIN PolicyLabels \cap {OwnedLabel, SecretTypeLabel, SecretNameLabel, SecretNamespaceLabel} = {})
    => /\ Lookup(last.out.labels, <<"capi-to-argocd/", "owned">>) = <<"true">>
       /\ Lookup(last.out.labels, <<"argocd.argoproj.io/", "secret-type">>) = <<"cluster">>
       /\ Lookup(last.out.labels, <<"capi-to-argocd/", "cluster-secret-name">>) = last.id.name
       /\ Lookup(last.out.labels, <<"capi-to-argocd/", "cluster-namespace">>) = last.id.namespace

\* C16 - label merge precedence: the labels of the built target have the
\* keys of the ownership labels, the linkage labels and the policy labels
\* and no other, and each key has the value of the policy labels if they
\* have it, else that of the linkage labels if they have it, else that of
\* the ownership labels
C16_MergePrecedence ==
    last.op = "ConvertToSecret" =>
        LET ownership == (<<"capi-to-argocd/", "owned">> :> <<"true">>)
                         @@ (<<"argocd.argoproj.io/", "secret-type">> :> <<"cluster">>)
            linkage == (<<"capi-to-argocd/", "cluster-secret-name">> :> last.id.name)
                       @@ (<<"capi-to-argocd/", "cluster-namespace">> :> last.id.namespace)
        IN /\ DOMAIN last.out.labels = DOMAIN ownership \cup DOMAIN linkage \cup DOMAIN PolicyLabels
           /\ \A k \in DOMAIN last.out.labels :
                 last.out.labels[k] =
                    IF k \in DOMAIN PolicyLabels THEN PolicyLabels[k]
                    ELSE IF k \in DOMAIN linkage THEN linkage[k]
                    ELSE ownership[k]

\* a policy label took the place of a linkage label and of an ownership label
C16_Witness ==
    /\ last.op = "ConvertToSecret"
    /\ ~cfg.EnableAutoLabelCopy
    /\ {OwnedLabel, SecretNamespaceLabel} \subseteq DOMAIN PolicyLabels
    /\ last.out.labels[OwnedLabel] = <<"false">>
    /\ last.out.labels[SecretNamespaceLabel] = <<"zz">>
    /\ last.out.labels[SecretTypeLabel] = <<"cluster">>

\* the keys K for which labels holds a request take-along-label.capi-to-argocd.K
Requested(labels) ==
    {Tail(key) : key \in {k \in DOMAIN labels :
        k[1] = "take-along-label.capi-to-argocd." /\ Len(k) >= 2}}

\* the marker key of K
Marker(K) == <<"taken-from-cluster-label.capi-to-argocd.">> \o K

\* the result the take-along mode is to give for labels
TakeAlongExpected(labels) ==
    LET present == Requested(labels) \cap DOMAIN labels
    IN [labels |-> [k \in present \cup {Marker(K) : K \in present} |->
                       IF k \in present THEN labels[k] ELSE <<>>],
        warned |-> Requested(labels) \ present]

\* C17 - take-along mode: for every owner label set buildTakeAlongLabels
\* returns exactly the pairs K -> owner value and marker of K -> "" of the
\* requested keys K that the owner carries, whatever else the owner carries,
\* and gives a warning for each requested key the owner lacks
C17_TakeAlong ==
    (last.op = "buildTakeAlongLabels" /\ ~cfg.EnableAutoLabelCopy) =>
        /\ last.out.labels = TakeAlongExpected(last.labels).labels
        /\ Cardinality(last.out.warnings) >= Cardinality(TakeAlongExpected(last.labels).warned)

\* C17 for owner label sets in which every take-along key has something
\* between the prefix and the end or the next occurrence of the prefix:
\* then the warnings are those about the requested keys the owner lacks
C17_TakeAlongWellFormed ==
    (last.op = "buildTakeAlongLabels" /\ ~cfg.EnableAutoLabelCopy
        /\ \A k \in DOMAIN last.labels :
              k[1] = "take-along-label.capi-to-argocd."
              => (Len(k) >= 2 /\ k[2] # "take-along-label.capi-to-argocd."))
    => /\ last.out.labels = TakeAlongExpected(last.labels).labels
       /\ {w.label : w \in last.out.warnings} = TakeAlongExpected(last.labels).warned
       /\ Cardinality(last.out.warnings) = Cardinality(TakeAlongExpected(last.labels).warned)

AcceptedType(s) ==
    \/ s.type = <<"cluster.x-k8s.io/secret">>
    \/ s.type = <<"Opaque">> /\ <<"cluster.x-k8s.io/", "cluster-name">> \in DOMAIN s.labels

BadDescriptor(doc) ==
    IF ~doc.decodes THEN TRUE
    ELSE LET field(f) == IF f \in DOMAIN doc.fields THEN doc.fields[f] ELSE <<>>
         IN \/ field("clusters") = <<>>
            \/ field("users") = <<>>
            \/ field("apiVersion") # <<"v1">>
            \/ field("kind") # <<"Config">>

C21_NamingPredicate ==
    last.op = "ValidateCapiNaming" =>
        /\ last.out <=> WellNamed(last.n.name)
        /\ last.n.name = <<>> => ~last.out
        /\ (Len(last.n.name) < 2 \/ last.n.name[Len(last.n.name)] # "kubeconfig") => ~last.out
        /\ (Len(last.n.name) >= 4
              /\ SubSeq(last.n.name, Len(last.n.name) - 3, Len(last.n.name))
                    = <<"-", "user", "-", "kubeconfig">>) => ~last.out

C21_Witness ==
    /\ last.op = "ValidateCapiNaming"
    /\ last.n.name = <<"a", "-", "user", "-", "kubeconfig">>
    /\ ~last.out

\* C22 - naming precondition exit: an invocation for a name that does not
\* end in -kubeconfig, or ends in -user-kubeconfig, returns no error and no
\* requeue and makes no store call, whatever is stored under that identity
C22_NamingExit ==
    [][\A req \in Requests :
          (EnginePass(req) /\ ~WellNamed(req.name)) =>
              /\ last'.err = ErrNone
              /\ ~last'.requeue
              /\ last'.calls = <<>>
              /\ secrets' = secrets
              /\ <<created', updated', deleted'>> = <<created, updated, deleted>>
              /\ req \notin queue']_vars

C22_Witness ==
    /\ last.branch # "idle"
    /\ last.req = TargetPlain
    /\ TargetPlain \in DOMAIN secrets
    /\ last.calls = <<>>
    /\ last.err = ErrNone
    /\ ~last.requeue

\* the tlsClientConfig object of a config blob, empty when the blob has none
TlsOf(blob) == IF "tlsClientConfig" \in DOMAIN blob THEN blob["tlsClientConfig"] ELSE EmptyMap

\* C23 - config blob shape: the config payload holds tlsClientConfig with
\* caData, certData and keyData when the first user carries a certificate
\* and key, and bearerToken when it carries a token; a field absent in the
\* credential payload (token, certData, keyData, caData, and
\* tlsClientConfig itself for a token-only principal) is left out of the
\* blob, not written empty
C23_ConfigBlob ==
    last.op = "NewArgoCluster" =>
        LET has(k) == k \in DOMAIN last.user
            tls == TlsOf(last.out)
        IN /\ (has("client-certificate-data") /\ has("client-key-data")) =>
                 /\ "tlsClientConfig" \in DOMAIN last.out
                 /\ Lookup(tls, "certData") = last.user["client-certificate-data"]
                 /\ Lookup(tls, "keyData") = last.user["client-key-data"]
                 /\ last.caData # <<>> => Lookup(tls, "caData") = last.caData
           /\ has("token") =>
                 "bearerToken" \in DOMAIN last.out /\ last.out["bearerToken"] = last.user["token"]
           /\ ~has("token") => "bearerToken" \notin DOMAIN last.out
           /\ ~has("client-certificate-data") => "certData" \notin DOMAIN tls
           /\ ~has("client-key-data") => "keyData" \notin DOMAIN tls
           /\ last.caData = <<>> => "caData" \notin DOMAIN tls
           /\ (has("token") /\ ~has("client-certificate-data") /\ ~has("client-key-data")) =>
                 "tlsClientConfig" \notin DOMAIN last.out

\* the part of C23 about the fields of the user entry: those present are
\* written, those absent are left out
C23_ConfigBlobUserFields ==
    last.op = "NewArgoCluster" =>
        LET has(k) == k \in DOMAIN last.user
            tls == TlsOf(last.out)
        IN /\ has("client-certificate-data") =>
                 Lookup(tls, "certData") = last.user["client-certificate-data"]
           /\ has("client-key-data") => Lookup(tls, "keyData") = last.user["client-key-data"]
           /\ has("token") =>
                 "bearerToken" \in DOMAIN last.out /\ last.out["bearerToken"] = last.user["token"]
           /\ ~has("token") => "bearerToken" \notin DOMAIN last.out
           /\ ~has("client-certificate-data") => "certData" \notin DOMAIN tls
           /\ ~has("client-key-data") => "keyData" \notin DOMAIN tls

\* the calls of operation op that the pass just made and the store carried
\* out: a call that failed, or a delete that found the record absent,
\* is none
Succeeded(op) ==
    IF last'.branch = "idle" THEN 0
    ELSE IF LastCalls(op) = {} THEN 0
    ELSE IF op = "create" /\ last'.fault = "create" THEN 0
    ELSE IF op = "update" /\ last'.fault = "update" THEN 0
    ELSE IF op = "delete" /\ last'.fault \in {"delete", "deleteGone"} THEN 0
    ELSE Cardinality(LastCalls(op))

\* C24 - counters: created, updated and deleted never decrease, and each
\* grows by one per create, update or delete call that succeeded against
\* the store and by nothing otherwise: not on a failed call, not on a pass
\* without a write, not on a delete that found the record already absent
C24_Counters ==
    [][/\ created' = created + Succeeded("create")
       /\ updated' = updated + Succeeded("update")
       /\ deleted' = deleted + Succeeded("delete")]_vars

\* C24 with a delete that found the record absent counted as a deletion
C24_CountersDeleteAnswered ==
    [][/\ created' = created + Succeeded("create")
       /\ updated' = updated + Succeeded("update")
       /\ deleted' = deleted + (IF last'.branch # "idle" /\ last'.fault = "deleteGone"
                                THEN 1 ELSE Succeeded("delete"))]_vars

\* the positions at which the comma-separated pieces of raw start
PieceStarts(raw) == {1} \cup {i + 1 : i \in {j \in 1..Len(raw) : raw[j] = ","}}

\* the positions of the piece starting at s that hold neither a blank nor a tab
Solid(raw, s) ==
    {i \in s..Len(raw) :
        /\ raw[i] \notin {",", " ", "\t"}
        /\ \A j \in s..i : raw[j] # ","}

\* the last position of the piece starting at s
PieceEnd(raw, s) ==
    IF \E j \in s..Len(raw) : raw[j] = ","
    THEN (CHOOSE j \in s..Len(raw) : raw[j] = "," /\ \A k \in s..(j - 1) : raw[k] # ",") - 1
    ELSE Len(raw)

\* C25 - allow-list parsing: parseNamespaceList splits on commas, trims the
\* whitespace around each entry, drops the entries left empty and keeps the
\* others in order; an input that is empty or made of commas and whitespace
\* only gives the empty list, and no list ever holds an empty entry
C25_ParseNamespaceList ==
    last.op = "parseNamespaceList" =>
        LET raw == last.raw
            kept == {s \in PieceStarts(raw) : Solid(raw, s) # {}}
            lo(s) == CHOOSE i \in Solid(raw, s) : \A j \in Solid(raw, s) : i <= j
            hi(s) == CHOOSE i \in Solid(raw, s) :
                        /\ i <= PieceEnd(raw, s)
                        /\ \A j \in Solid(raw, s) : j <= PieceEnd(raw, s) => i >= j
        IN /\ Len(last.out) = Cardinality(kept)
           /\ \A s \in kept :
                 last.out[Cardinality({t \in kept : t <= s})] = SubSeq(raw, lo(s), hi(s))
           /\ \A i \in 1..Len(last.out) : last.out[i] # <<>>
           /\ (\A i \in 1..Len(raw) : raw[i] \in {",", " ", "\t"}) => last.out = <<>>

C25_Witness ==
    /\ last.op = "parseNamespaceList"
    /\ last.raw = <<" ", "a", ",", ",", "b">>
    /\ last.out = << <<"a">>, <<"b">> >>

\* C26 - allow-list predicate: IsNamespaceAllowed(ns) is true iff
\* AllowedNamespaces is empty or holds ns itself; the event filter admits a
\* record iff its name passes ValidateCapiNaming and its namespace passes
\* IsNamespaceAllowed
C26_AllowList ==
    /\ last.op = "IsNamespaceAllowed" =>
          (last.out <=> (\/ Len(last.allowed) = 0
                         \/ \E i \in 1..Len(last.allowed) : last.allowed[i] = last.ns))
    /\ last.op = "EventFilter" =>
          (last.out <=> (/\ WellNamed(last.nn.name)
                         /\ \/ Len(last.allowed) = 0
                            \/ \E i \in 1..Len(last.allowed) : last.allowed[i] = last.nn.namespace))

C26_Witness ==
    /\ last.op = "EventFilter"
    /\ last.allowed = << <<"a", "-", "b">> >>
    /\ last.nn = NN(<<"a">>, <<"a", "-", "kubeconfig">>)
    /\ ~last.out

\* the store call of the pass just made that failed: the last call the
\* fault of the pass can strike
FailedAt ==
    CHOOSE i \in 1..Len(last'.calls) :
        /\ last'.fault \in FaultsOf(last'.calls[i])
        /\ \A j \in 1..Len(last'.calls) : last'.fault \in FaultsOf(last'.calls[j]) => j <= i

\* the pass just made returned the error of its failed call and made no
\* write after that call
Propagated ==
    /\ last'.err = ErrIO
    /\ \A i \in 1..Len(last'.calls) : i > FailedAt => last'.calls[i].op \notin WriteOps

\* C27 - I/O error propagation: when a store call of Reconcile (get source,
\* get owner, list or delete of the cleanup, get target, create, update)
\* fails with an error other than not-found, Reconcile returns that error
\* and issues no store write after the failed call
C27_ErrorPropagation ==
    [][\A req \in Requests :
          (EnginePass(req) /\ last'.fault \notin {"none", "deleteGone"}) => Propagated]_vars

\* C27 for the errors other than the no-match error of the owner lookup
C27_ErrorPropagationKindKnown ==
    [][\A req \in Requests :
          (EnginePass(req) /\ last'.fault \notin {"none", "deleteGone", "ownerNoMatch"}) =>
              Propagated]_vars

\* the credential record req is stored and valid, and the Cluster its
\* label cluster.x-k8s.io/cluster-name names, in its namespace, is not
OwnerMissing(req) ==
    /\ WellNamed(req.name)
    /\ req \in DOMAIN secrets
    /\ IsValidSource(secrets[req])
    /\ NN(req.namespace, Lookup(secrets[req].labels, <<"cluster.x-k8s.io/", "cluster-name">>))
          \notin DOMAIN clusters

\* C28 - owner gone: for a valid credential record whose owning Cluster is
\* not found, an invocation all of whose calls succeed lists the targets
\* with the linkage labels of the record and deletes one if there is any,
\* writes nothing if there is none, with garbage collection on or off;
\* it creates and updates nothing and returns no error and a requeue
C28_OwnerGone ==
    [][\A req \in Requests :
          (EnginePass(req) /\ last'.fault = "none" /\ OwnerMissing(req)) =>
              /\ LastCalls("list") # {}
              /\ LastCalls("create") = {} /\ LastCalls("update") = {}
              /\ IF Linked(req) = {} THEN LastCalls("delete") = {} /\ secrets' = secrets
                 ELSE /\ Cardinality(LastCalls("delete")) = 1
                      /\ \E k \in Linked(req) :
                            secrets' = [x \in DOMAIN secrets \ {k} |-> secrets[x]]
              /\ last'.err = ErrNone
              /\ last'.requeue]_vars

C28_Witness ==
    /\ last.branch # "idle"
    /\ last.req = S1
    /\ last.fault = "none"
    /\ ~cfg.EnableGarbageCollection
    /\ S1 \in DOMAIN secrets
    /\ IsValidSource(secrets[S1])
    /\ Owner1 \notin DOMAIN clusters
    /\ CallsOf(last.calls, "delete") # {}
    /\ Len(last.before) = 1
    /\ TargetPlain \notin DOMAIN secrets
    /\ last.err = ErrNone
    /\ last.requeue

\* C29 - single write: every invocation of Reconcile issues at most one
\* store write (one create, or one update, or one delete), on every path,
\* whatever the store holds and whatever call fails
C29_SingleWrite ==
    [][\A req \in Requests :
          EnginePass(req) =>
              Cardinality(LastCalls("create")) + Cardinality(LastCalls("update"))
                 + Cardinality(LastCalls("delete")) <= 1]_vars

C29_Witness ==
    /\ last.branch # "idle"
    /\ Cardinality(CallsOf(last.calls, "delete")) = 1
    /\ Cardinality(Linked(last.req)) = 1

\* C30 - re-delete is satisfied: when the delete of the cleanup path reports
\* that the listed target is already absent, Reconcile treats the deletion
\* as done and returns no error
C30_ReDelete ==
    [][\A req \in Requests :
          (EnginePass(req) /\ last'.fault = "deleteGone") =>
              /\ last'.err = ErrNone
              /\ last'.requeue
              /\ \A i \in LastCalls("delete") : last'.calls[i].key \notin DOMAIN secrets']_vars

C30_Witness ==
    /\ last.branch = "sourceGone"
    /\ last.fault = "deleteGone"
    /\ CallsOf(last.calls, "delete") # {}
    /\ last.err = ErrNone

\* C31 - first entry only: for a payload with one or more cluster entries
\* and one or more user entries, the server of the built target is that of
\* the first cluster entry and its principal (token, certData, keyData,
\* caData) is that of the first user and first cluster entry; the entries
\* after the first change nothing in the target
C31_FirstEntryOnly ==
    last.op = "BuildTarget" =>
        LET c == last.clusters[1]
            u == last.users[1]
            conf == last.out["config"]
            tls == TlsOf(conf)
        IN /\ last.out["server"] = c.server
           /\ Lookup(conf, "bearerToken") = Lookup(u, "token")
           /\ Lookup(tls, "certData") = Lookup(u, "client-certificate-data")
           /\ Lookup(tls, "keyData") = Lookup(u, "client-key-data")
           /\ Lookup(tls, "caData") = c.caData
           /\ last.out = last.outFirst

C31_Witness ==
    /\ last.op = "BuildTarget"
    /\ Len(last.clusters) = 2 /\ last.clusters[1].server # last.clusters[2].server
    /\ Len(last.users) = 2 /\ last.users[1] = CertUser /\ last.users[2] = ("token" :> <<"t">>)
    /\ last.out["server"] = last.clusters[1].server
    /\ "bearerToken" \notin DOMAIN last.out["config"]

\* the cleanup pass kept in last found the created target by its labels and
\* deleted it
Collected ==
    /\ Lookup(last.made.labels, <<"capi-to-argocd/", "cluster-secret-name">>) = last.id.name
    /\ Lookup(last.made.labels, <<"capi-to-argocd/", "cluster-namespace">>) = last.id.namespace
    /\ \E i \in 1..Len(last.calls) : last.calls[i] = Call("delete", "Secret", last.key)
    /\ last.key \notin DOMAIN last.store
    /\ last.err = ErrNone

\* C35 - create-then-collect round trip: for every credential record and
\* every owner label set, the created target carries the linkage labels of
\* the record's name and namespace, and once the record is deleted a
\* cleanup pass for it, with garbage collection enabled, finds the target by
\* those labels in the target namespace and deletes it
C35_RoundTrip == last.op = "RoundTrip" => Collected

\* C35 when no policy label has the key of a linkage label
C35_RoundTripNoClash ==
    (last.op = "RoundTrip"
        /\ DOMAIN PolicyLabels \cap {SecretNameLabel, SecretNamespaceLabel} = {})
    => Collected

\* an invocation for req all of whose calls succeed would write nothing
Settled(req) ==
    \A first \in FirstChoices(req) :
        Writes(ReconcileResult(secrets, clusters, cfg, req, "none", first).calls) = {}

\* C34 - global quiescence: with the credential records of n1 and n2 and
\* their Clusters left alone and both identities reconciled again and
\* again, from some state on no invocation issues a write, with namespaced
\* names on or off
C34_Quiescence ==
    (S1 \in DOMAIN secrets /\ S2 \in DOMAIN secrets) => <>[](Settled(S1) /\ Settled(S2))

\* C34 with namespaced names on
C34_QuiescenceNamespaced ==
    (S1 \in DOMAIN secrets /\ S2 \in DOMAIN secrets /\ cfg.EnableNamespacedNames)
    => <>[](Settled(S1) /\ Settled(S2))

\* C38 - cleanup completes: while the credential record n1/a-kubeconfig
\* stays absent, garbage collection is on and its passes keep being
\* scheduled, from some state on no owned record of the target namespace
\* carries its two linkage labels, however many carried them at the start
C38_CleanupCompletes ==
    (S1 \notin DOMAIN secrets /\ cfg.EnableGarbageCollection)
    => <>[](\A k \in MatchingSecrets(secrets, S1, cfg) : ~Owned(secrets[k]))

\* two records carried the labels at the start and two passes deleted them
C38_Witness ==
    /\ S1 \notin DOMAIN secrets
    /\ cfg.EnableGarbageCollection
    /\ last.req = S1
    /\ last.branch = "sourceGone"
    /\ deleted = 2
    /\ MatchingSecrets(secrets, S1, cfg) = {}

\* the target Reconcile builds for the identity req from the records stored
DesiredFor(req) ==
    LET capiSecret == secrets[req]
        capiCluster == [name |-> TrimSuffix(req.name, KubeconfigSuffix),
                        namespace |-> req.namespace,
                        kubeConfig |-> Unmarshal(capiSecret).kubeConfig]
        ownerKey == NN(req.namespace, Lookup(capiSecret.labels, ClusterNameLabel))
    IN NewArgoCluster(capiCluster, req, clusters[ownerKey], cfg)

\* the stored target of req has every label of the desired record
LabelsConverged(req, store) ==
    LET want == ConvertToSecret(DesiredFor(req)).labels
        key == BuildNamespacedName(req.name, req.namespace, cfg)
    IN /\ key \in DOMAIN store
       /\ \A k \in DOMAIN want : k \in DOMAIN store[key].labels /\ store[key].labels[k] = want[k]

\* C36 - converged labels: after a pass for an identity that ends in a
\* create, an update or an in-sync no-op on an owned target, the stored
\* target has every desired label with the desired value, whatever labels
\* the existing target had
C36_ConvergedLabels ==
    [][\A req \in {S1, S2} :
          (EnginePass(req) /\ last'.branch \in {"created", "updated", "insync"})
          => LabelsConverged(req, secrets')]_vars

\* C36 for a target that was created by the pass or already had the two
\* linkage labels and the delivery label of the identity
C36_ConvergedLabelsOwnTarget ==
    [][\A req \in {S1, S2} :
          (/\ EnginePass(req)
           /\ last'.branch \in {"created", "updated", "insync"}
           /\ \/ last'.branch = "created"
              \/ LET have == last'.before[1].labels
                     want == DesiredFor(req).ClusterLabels @@ GetArgoCommonLabels
                 IN \A k \in DOMAIN want : k \in DOMAIN have /\ have[k] = want[k])
          => LabelsConverged(req, secrets')]_vars

\* C37 - auto-copy follows removals: in auto-copy mode a label that was
\* copied to the owned target and is no longer among the owner's labels is
\* not on the target after the next pass
C37_AutoCopyRemovals ==
    [][\A req \in {S1, S2} :
          (/\ EnginePass(req)
           /\ cfg.EnableAutoLabelCopy
           /\ last'.fault = "none"
           /\ last'.branch \in {"updated", "insync"}) =>
              LET copied == DesiredFor(req).TakeAlongLabels
                  key == BuildNamespacedName(req.name, req.namespace, cfg)
                  fixed == DOMAIN GetArgoCommonLabels \cup {SecretNameLabel, SecretNamespaceLabel}
              IN \A k \in DOMAIN last'.before[1].labels \ fixed :
                     k \notin DOMAIN copied => k \notin DOMAIN secrets'[key].labels]_vars

\* C37 for the labels the owner has: after the pass each is on the target
\* with the owner's value
C37_AutoCopyCurrent ==
    [][\A req \in {S1, S2} :
          (/\ EnginePass(req)
           /\ cfg.EnableAutoLabelCopy
           /\ last'.fault = "none"
           /\ last'.branch \in {"updated", "insync"}) =>
              LET copied == DesiredFor(req).TakeAlongLabels
                  key == BuildNamespacedName(req.name, req.namespace, cfg)
              IN \A k \in DOMAIN copied :
                     k \in DOMAIN secrets'[key].labels /\ secrets'[key].labels[k] = copied[k]]_vars

----------------------------------------------------------------------------
(* concurrent invocations: the dispatcher runs invocations for different
   identities at once, never two for the same identity; an invocation makes
   its reads (Begin), and then its one write, if any, when other
   invocations may have written in between (Finish) *)

\* labels of a Cluster asking to take along one of the linkage labels
ClashLabels ==
    (SecretNamespaceLabel :> <<"zz">>) @@ ((clusterTakeAlongKey \o SecretNamespaceLabel) :> <<>>)

ConcInit ==
    /\ cfg \in [ArgoNamespace : {ArgoNs}, AllowedNamespaces : {<<>>, <<N1>>},
                EnableGarbageCollection : BOOLEAN, EnableNamespacedNames : BOOLEAN,
                EnableAutoLabelCopy : {FALSE}]
    /\ secrets \in {EmptyMap} \cup {(TargetPlain :> t) : t \in {f \in ForeignTargets : Owned(f)}}
    /\ \E labels \in {EmptyMap, ClashLabels} :
          clusters = (Owner1 :> [labels |-> EmptyMap])
                     @@ (NN(S2.namespace, <<"a">>) :> [labels |-> labels])
    /\ created = 0
    /\ updated = 0
    /\ deleted = 0
    /\ queue = {}
    /\ inflight = EmptyMap
    /\ last = Idle

\* the invocation for req is taken off the queue and makes its reads; the
\* write it is about to issue is the last call of a pass whose calls all
\* succeed, with the object it sends
Begin(req) ==
    /\ req \in queue
    /\ req \notin DOMAIN inflight
    /\ \E first \in FirstChoices(req) :
         \E r \in {ReconcileResult(secrets, clusters, cfg, req, "none", first)} :
            inflight' = (req :> [branch |-> r.branch, err |-> r.err, requeue |-> r.requeue,
                                 calls |-> r.calls, before |-> r.before,
                                 write |->
                                     IF Writes(r.calls) = {} THEN <<>>
                                     ELSE LET call == r.calls[Len(r.calls)]
                                          IN <<[op |-> call.op, key |-> call.key,
                                                obj |-> IF call.op = "delete" THEN <<>>
                                                        ELSE <<r.store[call.key]>>]>>])
                        @@ inflight
    /\ queue' = queue \ {req}
    /\ last' = [Idle EXCEPT !.req = req]
    /\ UNCHANGED <<cfg, secrets, clusters, created, updated, deleted>>

\* the invocation for req issues its write and returns; the store refuses
\* a create of an existing record and an update of a record that changed
\* since it was read, a delete goes by name, and any write may fail
Finish(req, answer) ==
    /\ req \in DOMAIN inflight
    /\ LET p == inflight[req]
           w == p.write[1]
       IN answer \in
            IF p.write = <<>> THEN {"none"}
            ELSE {"error"} \cup
                 CASE w.op = "create" -> IF w.key \in DOMAIN secrets THEN {} ELSE {"ok"}
                   [] w.op = "update" -> IF w.key \in DOMAIN secrets /\ <<secrets[w.key]>> = p.before
                                         THEN {"ok"} ELSE {}
                   [] OTHER -> {"ok"}
    /\ answer = "ok" => created + updated + deleted < MaxWrites
    /\ LET p == inflight[req]
           wrote == IF answer = "ok" THEN p.write ELSE <<>>
           op == IF wrote = <<>> THEN "none" ELSE wrote[1].op
           requeue == IF answer = "error" THEN TRUE ELSE p.requeue \/ p.err # ErrNone
       IN /\ secrets' = CASE op = "create" -> StoreCreate(secrets, wrote[1].key, wrote[1].obj[1])
                          [] op = "update" -> StoreUpdate(secrets, wrote[1].key, wrote[1].obj[1])
                          [] op = "delete" -> StoreDelete(secrets, wrote[1].key)
                          [] OTHER -> secrets
          /\ created' = created + (IF op = "create" THEN 1 ELSE 0)
          /\ updated' = updated + (IF op = "update" THEN 1 ELSE 0)
          /\ deleted' = deleted + (IF op = "delete" THEN 1 ELSE 0)
          /\ queue' = (IF requeue THEN queue \cup {req} ELSE queue)
                      \cup (IF wrote # <<>> /\ EventFilter(cfg, wrote[1].key)
                            THEN {wrote[1].key} ELSE {})
          /\ last' = [req |-> req, fault |-> answer, branch |-> p.branch,
                      err |-> IF answer = "error" THEN ErrIO ELSE p.err,
                      requeue |-> requeue, calls |-> p.calls,
                      before |-> IF op # "none" /\ wrote[1].key \in DOMAIN secrets
                                 THEN <<secrets[wrote[1].key]>> ELSE <<>>]
    /\ inflight' = [k \in DOMAIN inflight \ {req} |-> inflight[k]]
    /\ UNCHANGED <<cfg, clusters>>

ConcNext ==
    \/ ExternalPut(S1, GoodSource)
    \/ ExternalPut(S2, CapiSecret(CapiClusterSecretType, "value" :> KC2))
    \/ \E id \in {S1, S2} : ExternalDelete(id)
    \/ \E req \in {S1, S2} : Begin(req)
    \/ \E req \in {S1, S2} : \E answer \in {"none", "ok", "error"} : Finish(req, answer)

ConcSpec == ConcInit /\ [][ConcNext]_vars

\* the step is the return of an invocation for req that wrote
Wrote(req) ==
    /\ req \in DOMAIN inflight
    /\ req \notin DOMAIN inflight'
    /\ last'.fault = "ok"

\* C32 - allow-list enforcement: with a non-empty AllowedNamespaces, every
\* create, update or delete of a record is issued by an invocation for an
\* identity whose namespace is in the list
C32_AllowList ==
    [][\A req \in {S1, S2} :
          (Wrote(req) /\ Len(cfg.AllowedNamespaces) > 0)
          => \E i \in 1..Len(cfg.AllowedNamespaces) : cfg.AllowedNamespaces[i] = req.namespace]_vars

\* the credential record of n2 exists, n2 is not in the list, and an
\* invocation for the record of n1 has written
C32_Witness ==
    /\ cfg.AllowedNamespaces = <<N1>>
    /\ S2 \in DOMAIN secrets
    /\ last.req = S1
    /\ last.fault = "ok"

\* the write of the returning invocation for req stays within its footprint
Footprint(req) ==
    LET changed == {k \in DOMAIN secrets \cup DOMAIN secrets' :
                       \/ k \notin DOMAIN secrets
                       \/ k \notin DOMAIN secrets'
                       \/ secrets[k] # secrets'[k]}
        target == BuildNamespacedName(req.name, req.namespace, cfg)
        Carries(key) ==
            /\ Lookup(secrets[key].labels, SecretNameLabel) = req.name
            /\ Lookup(secrets[key].labels, SecretNamespaceLabel) = req.namespace
    IN /\ clusters' = clusters
       /\ \A k \in changed :
            /\ k.namespace = cfg.ArgoNamespace
            /\ k \in DOMAIN secrets' => k = target
            /\ k \notin DOMAIN secrets' => Carries(k)

\* C33 - write footprint under concurrency: however the invocations for
\* different identities interleave, an invocation for S creates or updates
\* only the record BuildNamespacedName(S), deletes only records of the
\* target namespace that carry the two linkage labels of S, and writes no
\* credential record, no Cluster and no record of another namespace
C33_WriteFootprint ==
    [][\A req \in {S1, S2} : Wrote(req) => Footprint(req)]_vars

\* C33 when no Cluster asks to take along a linkage label
C33_WriteFootprintNoClash ==
    [][\A req \in {S1, S2} :
          (Wrote(req) /\ \A k \in DOMAIN clusters : clusters[k].labels # ClashLabels)
          => Footprint(req)]_vars

====
